---- MODULE Spec2Model ----
(***************************************************************************)
(* A model of voxel.Volume (src/voxel/volume.py): a multi-channel 3D image *)
(* tensor of shape (C, W, H, D) paired with a voxel-to-world geometry, and *)
(* the operations that crop, resample, reshape, pad and transform it.      *)
(*                                                                         *)
(* Conventions of the model                                                *)
(*  - indices are 0-based tuples, shapes are sequences of axis sizes;      *)
(*  - world coordinates and matrix entries are integers counted in ticks   *)
(*    of 1e-4 world units, the absolute tolerance of the code's allclose   *)
(*    tests, so that "within tolerance" is "at most Atol ticks apart";     *)
(*  - geometries are monomial matrices (axis permutations with per-axis    *)
(*    signed scales: rotations by multiples of 90 degrees, flips and       *)
(*    anisotropic spacings), for which the inverse is exact in rationals;  *)
(*  - voxel values are integers; Blend stands for a value interpolated     *)
(*    between unequal neighbours.                                          *)
(***************************************************************************)
EXTENDS Integers, Sequences, FiniteSets, TLC

(***************************************************************************)
(* Bounds of the model.                                                    *)
(***************************************************************************)
MaxDim == 2        \* largest axis size of a constructed tensor
MaxChan == 2       \* largest channel count of a constructed tensor

(***************************************************************************)
(* Program constants.                                                      *)
(***************************************************************************)
Atol == 1          \* atol=1e-4 of torch.allclose, in ticks
Unit == 10000      \* 1.0 world unit in ticks of 1e-4

(***************************************************************************)
(* Integer helpers.                                                        *)
(***************************************************************************)
Abs(x) == IF x < 0 THEN 0 - x ELSE x
Min2(a, b) == IF a < b THEN a ELSE b
Max2(a, b) == IF a > b THEN a ELSE b

\* Python / torch floor division of integers by a positive divisor.
FloorDiv(n, d) == n \div d

\* ceil(n / d) for d > 0.
CeilDiv(n, d) == 0 - ((0 - n) \div d)

\* torch.round of the rational n / d (d > 0): round half to even.
RoundHalfEven(n, d) ==
    LET q == n \div d
        r == n - q * d
    IN  IF 2 * r < d THEN q
        ELSE IF 2 * r > d THEN q + 1
        ELSE IF q % 2 = 0 THEN q ELSE q + 1

\* Exact division of n by d /= 0 when d divides n (sign-safe).
ExactDiv(n, d) == IF d > 0 THEN n \div d ELSE (0 - n) \div (0 - d)

(***************************************************************************)
(* 3-vectors and 3x3 matrices over the integers.                           *)
(***************************************************************************)
Axes == 1..3
VAdd(u, v) == <<u[1] + v[1], u[2] + v[2], u[3] + v[3]>>
VNeg(u) == <<0 - u[1], 0 - u[2], 0 - u[3]>>
Zero3 == <<0, 0, 0>>

MatVec(A, v) ==
    [i \in Axes |-> A[i][1] * v[1] + A[i][2] * v[2] + A[i][3] * v[3]]

MatMul(A, B) ==
    [i \in Axes |-> [j \in Axes |->
        A[i][1] * B[1][j] + A[i][2] * B[2][j] + A[i][3] * B[3][j]]]

Diag(v) == <<  <<v[1], 0, 0>>, <<0, v[2], 0>>, <<0, 0, v[3]>>  >>

\* the row holding the nonzero entry of column j of a monomial matrix
PivotRow(A, j) == CHOOSE i \in Axes : A[i][j] # 0

(***************************************************************************)
(* Rationals n/d with d > 0, as pairs <<n, d>>.                            *)
(***************************************************************************)
Rat(n, d) == IF d > 0 THEN <<n, d>> ELSE <<0 - n, 0 - d>>
RatFloor(q) == q[1] \div q[2]
RatRound(q) == RoundHalfEven(q[1], q[2])
RatIsInt(q) == q[1] % q[2] = 0

\* torch.allclose(q, k, atol=1e-4, rtol=0) of the dimensionless rational q
\* and the integer k: |q - k| <= 1e-4, i.e. Unit * |n - k d| <= Atol * d.
RatCloseToInt(q, k) == Unit * Abs(q[1] - k * q[2]) <= Atol * q[2]

(***************************************************************************)
(* AffineMatrix / AcquisitionGeometry (package voxel, consumed by Volume). *)
(* A geometry argument is a record [kind, baseshape, A, t]: kind "none"    *)
(* is Python's None, "matrix" an AffineMatrix (no baseshape), "geometry"   *)
(* an AcquisitionGeometry anchored to baseshape.                           *)
(***************************************************************************)
NoGeometry == [kind |-> "none", baseshape |-> <<>>, A |-> Diag(Zero3), t |-> Zero3]
AffineMatrix(A, t) == [kind |-> "matrix", baseshape |-> <<>>, A |-> A, t |-> t]
Geometry(baseshape, A, t) ==
    [kind |-> "geometry", baseshape |-> baseshape, A |-> A, t |-> t]

\* the default geometry: an identity shifted so that the grid is centred at
\* the world origin
CenteredIdentity(baseshape) ==
    Geometry(baseshape, Diag(<<Unit, Unit, Unit>>),
             [i \in Axes |-> 0 - (((baseshape[i] - 1) * Unit) \div 2)])

\* AcquisitionGeometry(baseshape, matrix)
AcquisitionGeometry(baseshape, matrix) ==
    IF matrix.kind = "none" THEN CenteredIdentity(baseshape)
    ELSE Geometry(baseshape, matrix.A, matrix.t)

\* geometry.shift(delta, space='voxel'): the grid origin moves to voxel delta
GeoShift(g, delta) ==
    [g EXCEPT !.t = VAdd(g.t, MatVec(g.A, delta))]

\* geometry.scale(factor, space='voxel'): voxel axes are scaled by factor
GeoScale(g, factor) ==
    [g EXCEPT !.A = MatMul(g.A, Diag(factor))]

\* geometry.spacing: the world length of one voxel step on each axis (the
\* column norms, which for a monomial matrix are the pivots' magnitudes)
GeoSpacing(g) == [j \in Axes |-> Abs(g.A[PivotRow(g.A, j)][j])]

\* geometry.transform(p): voxel point p to world ticks
GeoPoint(g, p) == VAdd(MatVec(g.A, p), g.t)

\* geometry.inverse().transform(w): world point w (ticks) to a voxel point,
\* one rational per voxel axis
GeoInversePoint(g, w) ==
    [j \in Axes |-> LET i == PivotRow(g.A, j) IN Rat(w[i] - g.t[i], g.A[i][j])]

\* a @ b for a world-space affine a (entries in ticks, Unit = 1.0)
Compose(a, b) ==
    AffineMatrix([i \in Axes |-> [j \in Axes |-> MatMul(a.A, b.A)[i][j] \div Unit]],
                 [i \in Axes |-> (MatVec(a.A, b.t)[i] \div Unit) + a.t[i]])

\* torch.allclose(x, y, atol=1e-4, rtol=0) on the 3x3 blocks / translations
AllCloseMat(A, B) == \A i \in Axes : \A j \in Axes : Abs(A[i][j] - B[i][j]) <= Atol
AllCloseVec(u, v) == \A i \in Axes : Abs(u[i] - v[i]) <= Atol

(***************************************************************************)
(* Tensors: [dtype, shape, data], data a function on the index tuples.     *)
(***************************************************************************)
Blend == 0 - 1     \* a value interpolated between unequal neighbours

RECURSIVE Idx(_)
Idx(shape) ==
    IF shape = <<>> THEN {<<>>}
    ELSE {<<h>> \o r : h \in 0..(shape[1] - 1), r \in Idx(Tail(shape))}

Tensor(dtype, shape, data) == [dtype |-> dtype, shape |-> shape, data |-> data]

\* tensor.unsqueeze(0)
Unsqueeze0(T) ==
    Tensor(T.dtype, <<1>> \o T.shape,
           [x \in Idx(<<1>> \o T.shape) |-> T.data[Tail(x)]])

\* tensor.type(dtype) / .float(): the values of the model are exactly
\* representable in every dtype it uses, so only the dtype changes
AsType(T, dtype) == [T EXCEPT !.dtype = dtype]

(***************************************************************************)
(* Python indexing.  An optional bound is <<>> (None) or <<v>>.  An item   *)
(* of a slicing tuple is an integer index, a slice or an Ellipsis.         *)
(***************************************************************************)
None == <<>>
Some(v) == <<v>>
IntItem(i) == [kind |-> "int", i |-> i, start |-> None, stop |-> None, step |-> None]
Slice(start, stop, step) ==
    [kind |-> "slice", i |-> 0, start |-> start, stop |-> stop, step |-> step]
FullSlice == Slice(None, None, None)
EllipsisItem == [kind |-> "ellipsis", i |-> 0, start |-> None, stop |-> None, step |-> None]

\* slice.indices(n) for a positive step: the resolved start, stop and step
SliceStart(s, n) ==
    IF s.start = None THEN 0
    ELSE IF s.start[1] < 0 THEN Max2(s.start[1] + n, 0) ELSE Min2(s.start[1], n)
SliceStop(s, n) ==
    IF s.stop = None THEN n
    ELSE IF s.stop[1] < 0 THEN Max2(s.stop[1] + n, 0) ELSE Min2(s.stop[1], n)
SliceStep(s) == IF s.step = None THEN 1 ELSE s.step[1]
SliceLen(s, n) ==
    Max2(0, CeilDiv(SliceStop(s, n) - SliceStart(s, n), SliceStep(s)))

\* an integer index is valid on an axis of size n when -n <= i < n
IntIndexOk(i, n) == (0 - n) <= i /\ i < n
IntIndex(i, n) == IF i < 0 THEN i + n ELSE i

\* tensor[slicing] for a slicing tuple with one item (integer or slice) per
\* axis: integer-indexed axes are dropped, sliced axes are kept
IndexingOk(T, slicing) ==
    \A a \in 1..Len(T.shape) :
        slicing[a].kind = "int" => IntIndexOk(slicing[a].i, T.shape[a])

TensorIndex(T, slicing) ==
    LET n == Len(T.shape)
        kept == SelectSeq([a \in 1..n |-> a], LAMBDA a : slicing[a].kind = "slice")
        pos(a) == Cardinality({b \in 1..a : slicing[b].kind = "slice"})
        newshape == [m \in 1..Len(kept) |-> SliceLen(slicing[kept[m]], T.shape[kept[m]])]
        src(x) == [a \in 1..n |->
                     IF slicing[a].kind = "int"
                     THEN IntIndex(slicing[a].i, T.shape[a])
                     ELSE SliceStart(slicing[a], T.shape[a])
                            + SliceStep(slicing[a]) * x[pos(a)]]
    IN  Tensor(T.dtype, newshape, [x \in Idx(newshape) |-> T.data[src(x)]])

(***************************************************************************)
(* torch.nn.functional.pad of a (C, W, H, D) tensor on its three spatial   *)
(* axes: before[i] entries in front of and after[i] behind spatial axis i. *)
(***************************************************************************)
\* the source index a padded position p (relative to the unpadded axis of
\* size n) reads under 'reflect' and 'replicate'
ReflectIndex(p, n) == IF p < 0 THEN 0 - p ELSE IF p >= n THEN 2 * (n - 1) - p ELSE p
ReplicateIndex(p, n) == IF p < 0 THEN 0 ELSE IF p >= n THEN n - 1 ELSE p

\* 'reflect' needs every pad smaller than its axis, 'replicate' a non-empty axis
PadOk(T, before, after, mode) ==
    \A i \in Axes :
        LET n == T.shape[i + 1] IN
        CASE mode = "reflect" -> before[i] < n /\ after[i] < n
          [] mode = "replicate" -> (before[i] + after[i] > 0) => n > 0
          [] OTHER -> TRUE

TorchPad(T, before, after, mode) ==
    LET newshape == <<T.shape[1]>> \o [i \in Axes |-> before[i] + T.shape[i + 1] + after[i]]
        inside(x) == \A i \in Axes :
                        x[i + 1] - before[i] >= 0 /\ x[i + 1] - before[i] < T.shape[i + 1]
        src(x) == <<x[1]>> \o [i \in Axes |->
                     LET p == x[i + 1] - before[i]
                         n == T.shape[i + 1]
                     IN  IF mode = "reflect" THEN ReflectIndex(p, n)
                         ELSE ReplicateIndex(p, n)]
    IN  Tensor(T.dtype, newshape,
               [x \in Idx(newshape) |->
                   IF inside(x) THEN T.data[<<x[1]>> \o [i \in Axes |-> x[i + 1] - before[i]]]
                   ELSE IF mode = "constant" THEN 0
                   ELSE T.data[src(x)]])

(***************************************************************************)
(* Volume: the constructor, the geometry setter and new().  An operation   *)
(* returns a result record: err names the exception raised ("none" when a  *)
(* Volume is returned), same tells that the Volume holds the very tensor   *)
(* object of the source, tensor and geometry are the new Volume's fields.  *)
(***************************************************************************)
EmptyTensor == Tensor("float32", <<>>, [x \in {<<>>} |-> 0])
Raise(e) == [err |-> e, same |-> FALSE, tensor |-> EmptyTensor, geometry |-> NoGeometry]
Return(same, tensor, geometry) ==
    [err |-> "none", same |-> same, tensor |-> tensor, geometry |-> geometry]

\* a setter that takes a geometry of any baseshape
GeometrySetter_Unchecked(baseshape, geometry) ==
    IF geometry.kind # "geometry"
    THEN [err |-> "none", geometry |-> AcquisitionGeometry(baseshape, geometry)]
    ELSE [err |-> "none", geometry |-> geometry]

\* Volume.geometry = geometry, on a Volume whose tensor has the given baseshape
GeometrySetter(baseshape, geometry) ==
    IF geometry.kind # "geometry"
    THEN [err |-> "none", geometry |-> AcquisitionGeometry(baseshape, geometry)]
    ELSE IF geometry.baseshape # baseshape
    THEN [err |-> "ValueError", geometry |-> NoGeometry]
    ELSE [err |-> "none", geometry |-> geometry]

\* Volume(tensor, geometry); same is whether tensor is the caller's own object
\* (a 3-D input is replaced by its unsqueezed view)
VolumeInit(same, tensor, geometry) ==
    IF Len(tensor.shape) # 3 /\ Len(tensor.shape) # 4 THEN Raise("ValueError")
    ELSE LET t4 == IF Len(tensor.shape) = 3 THEN Unsqueeze0(tensor) ELSE tensor
             set == GeometrySetter(Tail(t4.shape), geometry)
         IN  IF set.err # "none" THEN Raise(set.err)
             ELSE Return(same /\ Len(tensor.shape) = 4, t4, set.geometry)

\* self.new(tensor, geometry)
New(self, same, tensor, geometry) ==
    VolumeInit(same, tensor, IF geometry.kind = "none" THEN self.geometry ELSE geometry)

(***************************************************************************)
(* Slicing utilities (package voxel.slicing, consumed by Volume.crop).     *)
(***************************************************************************)
\* expand_slicing(slicing, ndim): an Ellipsis is replaced by as many full
\* slices as are missing, a short tuple is completed with full slices
ExpandOk(slicing, ndim) ==
    /\ Cardinality({a \in 1..Len(slicing) : slicing[a].kind = "ellipsis"}) <= 1
    /\ Len(SelectSeq(slicing, LAMBDA s : s.kind # "ellipsis")) <= ndim

expand_slicing(slicing, ndim) ==
    LET given == Len(SelectSeq(slicing, LAMBDA s : s.kind # "ellipsis"))
        fill == [m \in 1..(ndim - given) |-> FullSlice]
        at == {a \in 1..Len(slicing) : slicing[a].kind = "ellipsis"}
    IN  IF at = {} THEN slicing \o fill
        ELSE LET e == CHOOSE a \in at : TRUE
             IN  SubSeq(slicing, 1, e - 1) \o fill \o SubSeq(slicing, e + 1, Len(slicing))

\* slicing_to_coordinates(slicing, shape): the inclusive corner voxels and
\* the stride (None when no slice carries a step) of a spatial slicing tuple
slicing_to_coordinates(slicing, shape) ==
    LET full == expand_slicing(slicing, Len(shape))
    IN  [minc |-> [i \in 1..Len(shape) |-> SliceStart(full[i], shape[i])],
         maxc |-> [i \in 1..Len(shape) |-> SliceStop(full[i], shape[i]) - 1],
         stride |-> IF \A i \in 1..Len(shape) : full[i].step = None THEN None
                    ELSE Some([i \in 1..Len(shape) |-> SliceStep(full[i])])]

\* coordinates_to_slicing(minc, maxc, stride): slices from minc to maxc inclusive
coordinates_to_slicing(minc, maxc, stride) ==
    [i \in 1..Len(minc) |->
        Slice(Some(minc[i]), Some(maxc[i] + 1),
              IF stride = None THEN None ELSE Some(stride[1][i]))]

(***************************************************************************)
(* Volume.crop with a slicing tuple, and Volume.crop_to_nonzero.           *)
(* margin is None or Some(world ticks).                                    *)
(***************************************************************************)
\* (margin / self.geometry.spacing).round().int()
MarginVoxels(self, margin) ==
    LET sp == GeoSpacing(self.geometry)
    IN  [i \in Axes |-> RoundHalfEven(margin[1], sp[i])]

\* a cropped geometry that is scaled by the stride but keeps the origin
CropGeometry_NoShift(geometry, minc, stride) ==
    IF stride # None THEN GeoScale(geometry, stride[1]) ELSE geometry

\* the geometry of the cropped grid: shifted to the min corner, scaled by
\* the stride
CropGeometry(geometry, minc, stride) ==
    LET shifted == IF \E i \in Axes : minc[i] # 0 THEN GeoShift(geometry, minc)
                   ELSE geometry
    IN  IF stride # None THEN GeoScale(shifted, stride[1]) ELSE shifted

Last3(shape) == SubSeq(shape, Len(shape) - 2, Len(shape))

\* a cropped geometry built without the matrix: the default one
CroppedGeometry_Default(shape, geometry) == AcquisitionGeometry(Last3(shape), NoGeometry)

\* vx.AcquisitionGeometry(baseshape=cropped_tensor.shape[-3:], matrix=geometry.tensor)
CroppedGeometry(shape, geometry) == AcquisitionGeometry(Last3(shape), geometry)

\* a check that looks at no entry
SpatialIntIndex_Unchecked(slicing) == FALSE

\* any(isinstance(s, int) for s in slicing[1:])
SpatialIntIndex(slicing) == \E a \in 2..Len(slicing) : slicing[a].kind = "int"

Crop(self, cropping, margin) ==
    IF ~ExpandOk(cropping, 4) THEN Raise("IndexError")
    ELSE
    LET slicing0 == expand_slicing(cropping, 4)
        baseshape == Tail(self.tensor.shape)
    IN  IF SpatialIntIndex(slicing0) THEN Raise("ValueError")
        ELSE
        LET c0 == slicing_to_coordinates(Tail(cropping), baseshape)
            mv == MarginVoxels(self, margin)
            minc == IF margin = None THEN c0.minc
                    ELSE [i \in Axes |-> Max2(c0.minc[i] - mv[i], 0)]
            maxc == IF margin = None THEN c0.maxc
                    ELSE [i \in Axes |-> Min2(c0.maxc[i] + mv[i], baseshape[i])]
            slicing == IF margin = None THEN slicing0
                       ELSE <<slicing0[1]>> \o coordinates_to_slicing(minc, maxc, c0.stride)
            geometry == CropGeometry(self.geometry, minc, c0.stride)
        IN  IF ~IndexingOk(self.tensor, slicing) THEN Raise("IndexError")
            ELSE
            LET cropped_tensor == TensorIndex(self.tensor, slicing)
                cropped_geometry == CroppedGeometry(cropped_tensor.shape, geometry)
            IN  New(self, FALSE, cropped_tensor, cropped_geometry)

\* tensor.nonzero(): the index tuples of the nonzero entries
Nonzero(T) == {x \in Idx(T.shape) : T.data[x] # 0}

SetMin(S) == CHOOSE m \in S : \A x \in S : m <= x
SetMax(S) == CHOOSE m \in S : \A x \in S : m >= x

\* vx.Mesh: the vertices, a set of world points in ticks
Mesh(vertices) == [kind |-> "mesh", vertices |-> vertices]

RatCeil(q) == CeilDiv(q[1], q[2])

\* the corner voxels that crop derives from a mesh
MeshCorners(self, cropping, margin) ==
    LET baseshape == Tail(self.tensor.shape)
        points == {GeoInversePoint(self.geometry, w) : w \in cropping.vertices}
        mv == IF margin = None THEN Zero3 ELSE MarginVoxels(self, margin)
    IN  [minc |-> [i \in Axes |->
                    Max2(SetMin({RatCeil(p[i]) : p \in points}) - mv[i], 0)],
         maxc |-> [i \in Axes |->
                    Min2(SetMax({RatFloor(p[i]) : p \in points}) + mv[i], baseshape[i])]]

\* Volume.crop with a bounding mesh
CropMesh(self, cropping, margin) ==
    LET c == MeshCorners(self, cropping, margin)
        slicing == <<FullSlice>> \o coordinates_to_slicing(c.minc, c.maxc, None)
        geometry == CropGeometry(self.geometry, c.minc, None)
        cropped_tensor == TensorIndex(self.tensor, slicing)
        cropped_geometry == CroppedGeometry(cropped_tensor.shape, geometry)
    IN  New(self, FALSE, cropped_tensor, cropped_geometry)

\* a crop_to_nonzero that takes the corners of an empty index set to be zero
CropToNonzero_EmptyAtOrigin(self, margin) ==
    LET nonzero == Nonzero(self.tensor)
        minc == [a \in 1..4 |-> IF nonzero = {} THEN 0 ELSE SetMin({x[a] : x \in nonzero})]
        maxc == [a \in 1..4 |-> IF nonzero = {} THEN 0 ELSE SetMax({x[a] : x \in nonzero})]
    IN  Crop(self, coordinates_to_slicing(minc, maxc, None), margin)

CropToNonzero(self, margin) ==
    LET nonzero == Nonzero(self.tensor)
    IN  IF nonzero = {} THEN Raise("IndexError")
        ELSE
        LET minc == [a \in 1..4 |-> SetMin({x[a] : x \in nonzero})]
            maxc == [a \in 1..4 |-> SetMax({x[a] : x \in nonzero})]
        IN  Crop(self, coordinates_to_slicing(minc, maxc, None), margin)

(***************************************************************************)
(* Sampling grids.  A grid coordinate is [nan, q]: q a rational, nan set   *)
(* when the floating-point value is NaN or infinite (a division by zero).  *)
(***************************************************************************)
Coord(q) == [nan |-> FALSE, q |-> q]
NaN == [nan |-> TRUE, q |-> <<0, 1>>]

\* normalize_grid_points on one axis: c / (dim - 1) * 2 - 1
NormalizeCoord(c, dim) ==
    IF c.nan \/ dim = 1 THEN NaN
    ELSE Coord(Rat(2 * c.q[1] - (dim - 1) * c.q[2], (dim - 1) * c.q[2]))

\* normalize_grid_points(baseshape, points) for one point
normalize_grid_points(baseshape, point) ==
    [i \in Axes |-> NormalizeCoord(point[i], baseshape[i])]

\* tensor.flip(-1) of one grid point
Flip(point) == <<point[3], point[2], point[1]>>

\* volume_grid(baseshape, transform, normalize): the grid point of target
\* voxel k, where transform maps target voxels to source voxels
\* (self.geometry.inverse() @ target)
GridTransform(source, target, k) ==
    LET p == GeoInversePoint(source, GeoPoint(target, k))
    IN  [i \in Axes |-> Coord(p[i])]

volume_grid(source, target, normalize, k) ==
    Flip(normalize_grid_points(normalize, GridTransform(source, target, k)))

\* grid_sample(align_corners=True) maps a normalised coordinate back to a
\* voxel coordinate: ((g + 1) / 2) * (dim - 1)
Unnormalize(g, dim) ==
    IF g.nan THEN NaN
    ELSE Coord(Rat((g.q[1] + g.q[2]) * (dim - 1), 2 * g.q[2]))

\* padding_mode 'border': clip the coordinate to [0, dim - 1]
ClipCoord(q, dim) ==
    IF q[1] < 0 THEN <<0, 1>>
    ELSE IF q[1] > (dim - 1) * q[2] THEN <<dim - 1, 1>> ELSE q

\* padding_mode 'reflection' (align_corners): reflect over 0 and dim - 1
ReflectCoord(q, dim) ==
    IF dim = 1 THEN <<0, 1>>
    ELSE LET span == (dim - 1) * q[2]
             a == Abs(q[1])
             flips == a \div span
             extra == a % span
         IN  IF flips % 2 = 0 THEN <<extra, q[2]>> ELSE <<span - extra, q[2]>>

\* the source indices one axis contributes for coordinate c, each with a
\* nonzero weight; an index outside 0..dim-1 reads as the value 0
AxisCorners(c, dim, mode, padding_mode, nan_oob) ==
    IF c.nan THEN (IF padding_mode = "zeros" /\ nan_oob THEN {0 - 1} ELSE {0})
    ELSE LET q == CASE padding_mode = "border" -> ClipCoord(c.q, dim)
                    [] padding_mode = "reflection" -> ClipCoord(ReflectCoord(c.q, dim), dim)
                    [] OTHER -> c.q
         IN  IF mode = "nearest" THEN {RatRound(q)}
             ELSE IF RatIsInt(q) THEN {RatFloor(q)}
             ELSE {RatFloor(q), RatFloor(q) + 1}

\* torch.nn.functional.grid_sample of a float (C, W, H, D) tensor at the
\* grid of the target baseshape; the grid holds flipped points, which the
\* sampler reads last axis first
GridSampleOk(mode, padding_mode) ==
    /\ mode \in {"linear", "bilinear", "nearest"}
    /\ padding_mode \in {"zeros", "border", "reflection"}

GridSample(T, source, target, mode, padding_mode, nan_oob) ==
    LET S == Tail(T.shape)
        newshape == <<T.shape[1]>> \o target.baseshape
        corners(k) ==
            LET g == Flip(volume_grid(source, target, S, k))
            IN  [i \in Axes |->
                    AxisCorners(Unnormalize(g[i], S[i]), S[i], mode, padding_mode, nan_oob)]
        values(x) ==
            LET cs == corners(Tail(x))
            IN  {IF \A i \in Axes : p[i] >= 0 /\ p[i] < S[i]
                 THEN T.data[<<x[1]>> \o p] ELSE 0 :
                    p \in {<<i, j, k>> : i \in cs[1], j \in cs[2], k \in cs[3]}}
    IN  Tensor("float32", newshape,
               [x \in Idx(newshape) |->
                   LET vs == values(x)
                   IN  IF Cardinality(vs) = 1 THEN CHOOSE v \in vs : TRUE ELSE Blend])

(***************************************************************************)
(* Volume.resample_like(target, mode, padding_mode).  nan_oob selects the  *)
(* platform's conversion of a NaN coordinate to an index (out of range, or *)
(* zero).                                                                  *)
(***************************************************************************)
\* dict(zeros='constant', reflection='reflect', border='replicate').get(padding_mode)
PadModeOf(padding_mode) ==
    CASE padding_mode = "zeros" -> Some("constant")
      [] padding_mode = "reflection" -> Some("reflect")
      [] padding_mode = "border" -> Some("replicate")
      [] OTHER -> None

\* (self.geometry.inverse() @ target).transform(torch.zeros(3))
VoxelDelta(source, target) == GeoInversePoint(source, target.t)

\* the crop-and-pad fast path for an integer voxel delta
ShiftResample(self, target, lower, padding_mode) ==
    LET S == Tail(self.tensor.shape)
        upper == [i \in Axes |-> lower[i] + target.baseshape[i] - S[i]]
        minc == [i \in Axes |-> Max2(lower[i], 0)]
        maxc == [i \in Axes |-> Min2(upper[i], 0) + S[i]]
        slicing == <<FullSlice>> \o [i \in Axes |-> Slice(Some(minc[i]), Some(maxc[i]), None)]
        resampled == TensorIndex(self.tensor, slicing)
        a == [i \in Axes |-> Abs(Min2(lower[i], 0))]
        b == [i \in Axes |-> Max2(upper[i], 0)]
    IN  IF \E i \in Axes : a[i] # 0 \/ b[i] # 0
        THEN LET mode == PadModeOf(padding_mode)
             IN  IF mode = None THEN Raise("ValueError")
                 ELSE IF ~PadOk(resampled, a, b, mode[1]) THEN Raise("RuntimeError")
                 ELSE New(self, FALSE, TorchPad(resampled, a, b, mode[1]), target)
        ELSE New(self, FALSE, resampled, target)

\* the grid interpolation path
GridResample(self, target, mode, padding_mode, nan_oob) ==
    IF \E i \in Axes : target.baseshape[i] < 0 THEN Raise("RuntimeError")
    ELSE IF ~GridSampleOk(mode, padding_mode) THEN Raise("ValueError")
    ELSE LET sampled == GridSample(AsType(self.tensor, "float32"), self.geometry,
                                   target, mode, padding_mode, nan_oob)
             resampled == IF mode = "nearest" THEN AsType(sampled, self.tensor.dtype)
                          ELSE sampled
         IN  New(self, FALSE, resampled, target)

\* the rotation and scale blocks match, and so do baseshape and translation
IdentityMatch(self, target) ==
    /\ AllCloseMat(self.geometry.A, target.A)
    /\ target.baseshape = Tail(self.tensor.shape)
    /\ AllCloseVec(self.geometry.t, target.t)

\* the rotation and scale blocks match and the voxel delta is integral
IntegerShift(self, target) ==
    /\ AllCloseMat(self.geometry.A, target.A)
    /\ LET delta == VoxelDelta(self.geometry, target)
       IN  \A i \in Axes : RatCloseToInt(delta[i], RatRound(delta[i]))

\* resample_like without the identity check
ResampleLike_NoIdentity(self, target, mode, padding_mode, nan_oob) ==
    IF IntegerShift(self, target)
    THEN LET delta == VoxelDelta(self.geometry, target)
             delta_rounded == [i \in Axes |-> RatRound(delta[i])]
         IN  ShiftResample(self, target, delta_rounded, padding_mode)
    ELSE GridResample(self, target, mode, padding_mode, nan_oob)

ResampleLike(self, target, mode, padding_mode, nan_oob) ==
    IF IdentityMatch(self, target) THEN New(self, TRUE, self.tensor, target)
    ELSE IF IntegerShift(self, target)
    THEN LET delta == VoxelDelta(self.geometry, target)
             delta_rounded == [i \in Axes |-> RatRound(delta[i])]
         IN  ShiftResample(self, target, delta_rounded, padding_mode)
    ELSE GridResample(self, target, mode, padding_mode, nan_oob)

\* the index conversions of a NaN coordinate that a call can meet: a NaN
\* arises only from normalising against a source axis of size 1
NanChoices(self) ==
    IF \E i \in Axes : self.tensor.shape[i + 1] = 1 THEN BOOLEAN ELSE {TRUE}

(***************************************************************************)
(* Volume.reshape, Volume.pad and Volume.transform.                        *)
(***************************************************************************)
\* (torch.tensor(self.baseshape) - torch.tensor(baseshape)) // 2
CenterShift(cur, new) == [i \in Axes |-> FloorDiv(cur[i] - new[i], 2)]

Reshape(self, baseshape, nan_oob) ==
    LET shift == CenterShift(Tail(self.tensor.shape), baseshape)
        target == AcquisitionGeometry(baseshape, GeoShift(self.geometry, shift))
    IN  ResampleLike(self, target, "nearest", "zeros", nan_oob)

\* a voxel delta rounded half up: floor(delta / spacing + 0.5)
PadVoxels_HalfUp(self, delta) ==
    LET sp == GeoSpacing(self.geometry)
    IN  [i \in Axes |-> FloorDiv(2 * delta[i] + sp[i], 2 * sp[i])]

\* (delta / self.geometry.spacing).round().int(), delta in world ticks
PadVoxels(self, delta) ==
    LET sp == GeoSpacing(self.geometry)
    IN  [i \in Axes |-> RoundHalfEven(delta[i], sp[i])]

Pad(self, delta, nan_oob) ==
    LET curr_shape == Tail(self.tensor.shape)
        new_shape == VAdd(curr_shape, PadVoxels(self, delta))
        shift == CenterShift(curr_shape, new_shape)
        target == AcquisitionGeometry(new_shape, GeoShift(self.geometry, shift))
    IN  ResampleLike(self, target, "nearest", "zeros", nan_oob)

\* Volume.resample(spacing, mode, padding_mode); spacing is a sequence of
\* world ticks, of length 1 for a scalar.  The translation of the new grid
\* is kept to the tick, and the new lengths are those of exact arithmetic
\* (NewShape gives them as float32 computes them).
Resample(self, spacing, mode, padding_mode, nan_oob) ==
    IF Len(spacing) # 1 /\ Len(spacing) # 3 THEN Raise("ValueError")
    ELSE
    LET sp3 == IF Len(spacing) = 1 THEN <<spacing[1], spacing[1], spacing[1]>> ELSE spacing
        cur == GeoSpacing(self.geometry)
        curshape == Tail(self.tensor.shape)
        newshape == [j \in Axes |-> CeilDiv(cur[j] * curshape[j], sp3[j])]
        \* A @ shift for shift = 0.5 * scale * (1 - newshape / curshape)
        moved == [i \in Axes |->
                     LET j == CHOOSE c \in Axes : self.geometry.A[i][c] # 0
                         sign == IF self.geometry.A[i][j] < 0 THEN 0 - 1 ELSE 1
                     IN  self.geometry.t[i]
                           + RoundHalfEven(sign * sp3[j] * (curshape[j] - newshape[j]),
                                           2 * curshape[j])]
        scaled == [i \in Axes |-> [j \in Axes |->
                     IF self.geometry.A[i][j] = 0 THEN 0
                     ELSE IF self.geometry.A[i][j] < 0 THEN 0 - sp3[j] ELSE sp3[j]]]
        target == AcquisitionGeometry(newshape, AffineMatrix(scaled, moved))
    IN  ResampleLike(self, target, mode, padding_mode, nan_oob)

\* the inverse of a world-space affine whose monomial entries divide Unit^2
AffineInverse(m) ==
    LET inv == [j \in Axes |-> [i \in Axes |->
                   IF m.A[i][j] = 0 THEN 0 ELSE ExactDiv(Unit * Unit, m.A[i][j])]]
    IN  AffineMatrix(inv, [j \in Axes |-> 0 - (MatVec(inv, m.t)[j] \div Unit)])

\* Volume.transform for a world-space transform: an AffineMatrix, wrapped by
\* the code into a transform from self to self, or an AffineVolumeTransform
\* whose target geometry is given (transform.target)
TransformTarget(self, transform) ==
    IF transform.kind = "matrix" THEN self.geometry ELSE transform.target

\* the resampling path of transform
TransformResample(self, transform, negate, mode, nan_oob) ==
    IF ~GridSampleOk(mode, "zeros") THEN Raise("ValueError")
    ELSE
    LET target == TransformTarget(self, transform)
        \* inverted = (target^-1 @ transform @ source)^-1 maps target voxels
        \* to source voxels: the source geometry moved by the transform
        moved == AcquisitionGeometry(Tail(self.tensor.shape),
                                     Compose(transform, self.geometry))
        interpolated == GridSample(AsType(self.tensor, "float32"), moved, target,
                                   mode, "zeros", nan_oob)
        geometry == IF negate
                    THEN AcquisitionGeometry(target.baseshape,
                                             Compose(AffineInverse(transform), target))
                    ELSE target
    IN  New(self, FALSE, interpolated, geometry)

\* a transform whose geometry-only path returns a copy of the tensor
Transform_Copy(self, transform, resample, negate, mode, nan_oob) ==
    IF ~resample
    THEN IF negate THEN Raise("ValueError")
         ELSE New(self, FALSE, self.tensor, Compose(transform, self.geometry))
    ELSE TransformResample(self, transform, negate, mode, nan_oob)

\* a transform whose geometry-only path ignores negate
Transform_NegateIgnored(self, transform, resample, negate, mode, nan_oob) ==
    IF ~resample
    THEN New(self, TRUE, self.tensor, Compose(transform, self.geometry))
    ELSE TransformResample(self, transform, negate, mode, nan_oob)

Transform(self, transform, resample, negate, mode, nan_oob) ==
    IF ~resample
    THEN IF negate THEN Raise("ValueError")
         ELSE New(self, TRUE, self.tensor, Compose(transform, self.geometry))
    ELSE TransformResample(self, transform, negate, mode, nan_oob)

(***************************************************************************)
(* Elementwise operators, reductions, like-constructors and stack.         *)
(***************************************************************************)
\* torch broadcasting of two shapes of equal rank
Broadcastable(s1, s2) ==
    /\ Len(s1) = Len(s2)
    /\ \A a \in 1..Len(s1) : s1[a] = s2[a] \/ s1[a] = 1 \/ s2[a] = 1
BroadcastShape(s1, s2) == [a \in 1..Len(s1) |-> IF s1[a] = 1 THEN s2[a] ELSE s1[a]]
BroadcastIndex(x, shape) == [a \in 1..Len(shape) |-> IF shape[a] = 1 THEN 0 ELSE x[a]]

\* voxel values add exactly; a sum involving a Blend is a Blend
AddValue(u, v) == IF u = Blend \/ v = Blend THEN Blend ELSE u + v

TensorAdd(T, other) ==
    LET shape == BroadcastShape(T.shape, other.shape)
    IN  Tensor(T.dtype, shape,
               [x \in Idx(shape) |->
                   AddValue(T.data[BroadcastIndex(x, T.shape)],
                            other.data[BroadcastIndex(x, other.shape)])])

\* self + other, for a tensor other
Add(self, other) ==
    IF ~Broadcastable(self.tensor.shape, other.shape) THEN Raise("RuntimeError")
    ELSE New(self, FALSE, TensorAdd(self.tensor, other), NoGeometry)

\* self += other: the result is written into self's tensor, whose shape
\* cannot change
IAddOk(self, other) ==
    /\ Broadcastable(self.tensor.shape, other.shape)
    /\ BroadcastShape(self.tensor.shape, other.shape) = self.tensor.shape

\* tensor.amax(dim=0)
AMax0(T) ==
    Tensor(T.dtype, Tail(T.shape),
           [x \in Idx(Tail(T.shape)) |->
               LET vs == {T.data[<<c>> \o x] : c \in 0..(T.shape[1] - 1)}
               IN  IF Blend \in vs THEN Blend ELSE SetMax(vs)])

\* self.max(dim=0): a one-channel Volume (an empty channel axis cannot be reduced)
MaxAlong0(self) ==
    IF self.tensor.shape[1] = 0 THEN Raise("IndexError")
    ELSE New(self, FALSE, AMax0(self.tensor), NoGeometry)

\* self.zeros_like(channels, dtype): channels and dtype are None or Some(v)
ZerosLike(self, channels, dtype) ==
    LET shape == IF channels = None THEN self.tensor.shape
                 ELSE <<channels[1]>> \o Tail(self.tensor.shape)
        dt == IF dtype = None THEN self.tensor.dtype ELSE dtype[1]
    IN  New(self, FALSE, Tensor(dt, shape, [x \in Idx(shape) |-> 0]), NoGeometry)

\* torch.cat([a, b], dim=0)
Cat0(T1, T2) ==
    LET shape == <<T1.shape[1] + T2.shape[1]>> \o Tail(T1.shape)
    IN  Tensor(T1.dtype, shape,
               [x \in Idx(shape) |->
                   IF x[1] < T1.shape[1] THEN T1.data[x]
                   ELSE T2.data[<<x[1] - T1.shape[1]>> \o Tail(x)]])

\* stack(a, b)
Stack(a, b) ==
    IF Tail(a.tensor.shape) # Tail(b.tensor.shape) THEN Raise("RuntimeError")
    ELSE New(a, FALSE, Cat0(a.tensor, b.tensor), NoGeometry)

\* self -= other, self *= other, self /= other on tensors: the values
\* written in place (a quotient that is no integer, or that divides by
\* zero, is a Blend)
InPlaceValue(kind, u, v) ==
    IF u = Blend \/ v = Blend THEN Blend
    ELSE IF kind = "isub" THEN u - v
    ELSE IF kind = "imul" THEN u * v
    ELSE IF v # 0 /\ u % Abs(v) = 0 THEN ExactDiv(u, v) ELSE Blend

\* an integer tensor cannot take the floating result of a true division
InPlaceOk(kind, self, other) ==
    /\ IAddOk(self, other)
    /\ kind = "itruediv" => self.tensor.dtype = "float32"

InPlace(kind, T, other) ==
    Tensor(T.dtype, T.shape,
           [x \in Idx(T.shape) |->
               InPlaceValue(kind, T.data[x], other.data[BroadcastIndex(x, other.shape)])])

\* self[indexing] = value, for a number value: the entries that the
\* indexing selects are overwritten
Selected(T, slicing) ==
    {x \in Idx(T.shape) :
        \A a \in 1..Len(T.shape) :
            IF slicing[a].kind = "int" THEN x[a] = IntIndex(slicing[a].i, T.shape[a])
            ELSE /\ x[a] >= SliceStart(slicing[a], T.shape[a])
                 /\ x[a] < SliceStop(slicing[a], T.shape[a])
                 /\ (x[a] - SliceStart(slicing[a], T.shape[a])) % SliceStep(slicing[a]) = 0}

SetItemOk(T, indexing) ==
    ExpandOk(indexing, Len(T.shape))
        /\ IndexingOk(T, expand_slicing(indexing, Len(T.shape)))

SetItem(T, indexing, value) ==
    LET chosen == Selected(T, expand_slicing(indexing, Len(T.shape)))
    IN  Tensor(T.dtype, T.shape,
               [x \in Idx(T.shape) |-> IF x \in chosen THEN value ELSE T.data[x]])

\* self.tensor.clamp_(min=min, max=max)
ClampInplace(T, min, max) ==
    Tensor(T.dtype, T.shape,
           [x \in Idx(T.shape) |->
               IF T.data[x] = Blend THEN Blend ELSE Min2(Max2(T.data[x], min), max)])

(***************************************************************************)
(* Volume.smooth(sigma) with filters.gaussian_blur; sigma is a sequence of *)
(* world ticks (of length 1 for a scalar), none negative.                  *)
(***************************************************************************)
\* gaussian_kernel_1d: the radius int(truncate * sigma + 0.5) of the kernel
\* for sigma = ticks / spacing voxels and truncate = 2
KernelRadius(ticks, spacing) == (4 * ticks + spacing) \div (2 * spacing)

\* the kernels are positive and sum to one: a voxel whose neighbourhood
\* (zero outside the grid) is all zero stays zero, any other is a Blend
GaussianBlur(T, radius) ==
    LET S == Tail(T.shape)
        span(c, i) == Max2(c - radius[i], 0)..Min2(c + radius[i], S[i] - 1)
        box(x) == {<<x[1], i, j, k>> :
                      i \in span(x[2], 1), j \in span(x[3], 2), k \in span(x[4], 3)}
    IN  Tensor("float32", T.shape,
               [x \in Idx(T.shape) |->
                   IF \A y \in box(x) : T.data[y] = 0 THEN 0 ELSE Blend])

\* with every kernel of length one nothing is convolved: the result is the
\* tensor as float32 (the tensor itself when it is float32 already); a
\* convolution runs with groups = channels on a one-channel kernel
Smooth(self, sigma) ==
    IF Len(sigma) # 1 /\ Len(sigma) # 3 THEN Raise("RuntimeError")
    ELSE
    LET sp == GeoSpacing(self.geometry)
        radius == [i \in Axes |->
                     KernelRadius(IF Len(sigma) = 1 THEN sigma[1] ELSE sigma[i], sp[i])]
    IN  IF \A i \in Axes : radius[i] = 0
        THEN New(self, self.tensor.dtype = "float32",
                 AsType(self.tensor, "float32"), NoGeometry)
        ELSE IF self.tensor.shape[1] # 1 THEN Raise("RuntimeError")
        ELSE New(self, FALSE, GaussianBlur(self.tensor, radius), NoGeometry)

(***************************************************************************)
(* Volume.quantile(q), q a rational <<j, den>>.  A call that returns a     *)
(* plain value evaluates to [err, val].                                    *)
(***************************************************************************)
RaiseValue(e) == [err |-> e, val |-> 0]
ReturnValue(v) == [err |-> "none", val |-> v]

\* flattened.numel()
Numel(T) == Cardinality(Idx(T.shape))

\* flattened.topk(k, largest=False).values.max(): the k-th smallest entry
KthSmallest(T, k) ==
    CHOOSE v \in {T.data[x] : x \in Idx(T.shape)} :
        /\ Cardinality({x \in Idx(T.shape) : T.data[x] < v}) < k
        /\ Cardinality({x \in Idx(T.shape) : T.data[x] <= v}) >= k

\* flattened.topk(k, largest=True).values.min(): the k-th largest entry
KthLargest(T, k) ==
    CHOOSE v \in {T.data[x] : x \in Idx(T.shape)} :
        /\ Cardinality({x \in Idx(T.shape) : T.data[x] > v}) < k
        /\ Cardinality({x \in Idx(T.shape) : T.data[x] >= v}) >= k

\* a rank that rounds n * q up
QuantileRank_RoundUp(n, q) ==
    IF 2 * q[1] > q[2] THEN CeilDiv(n * (q[2] - q[1]), q[2]) + 1
    ELSE CeilDiv(n * q[1], q[2]) + 1

\* int(n * (1.0 - q)) + 1 for q > 0.5, int(n * q) + 1 otherwise
QuantileRank(n, q) ==
    IF 2 * q[1] > q[2] THEN ((n * (q[2] - q[1])) \div q[2]) + 1
    ELSE ((n * q[1]) \div q[2]) + 1

Quantile(self, q) ==
    LET n == Numel(self.tensor)
        values == {self.tensor.data[x] : x \in Idx(self.tensor.shape)}
        k == QuantileRank(n, q)
    IN  IF q[1] < 0 \/ q[1] > q[2] THEN RaiseValue("ValueError")
        ELSE IF q[1] = 0
        THEN IF n = 0 THEN RaiseValue("RuntimeError") ELSE ReturnValue(SetMin(values))
        ELSE IF q[1] = q[2]
        THEN IF n = 0 THEN RaiseValue("RuntimeError") ELSE ReturnValue(SetMax(values))
        ELSE IF k > n THEN RaiseValue("RuntimeError")
        ELSE IF 2 * q[1] > q[2] THEN ReturnValue(KthLargest(self.tensor, k))
        ELSE ReturnValue(KthSmallest(self.tensor, k))

(***************************************************************************)
(* Volume.bounds(nonzero, margin): the voxel-space corners of the box that *)
(* is handed to construct_box_mesh, one rational per axis; margin is None  *)
(* or Some(world ticks).                                                   *)
(***************************************************************************)
RatAdd(q, r) ==
    IF q[2] = r[2] THEN <<q[1] + r[1], q[2]>> ELSE <<q[1] * r[2] + r[1] * q[2], q[2] * r[2]>>
RatNeg(q) == <<0 - q[1], q[2]>>
RatEq(q, r) == q[1] * r[2] = r[1] * q[2]

\* the corners before the margin; with several channels the 4-D tensor is
\* viewed as the 3-D baseshape, which its size does not allow
BoundsCorners(self, nonzero) ==
    LET baseshape == Tail(self.tensor.shape)
        found == {Tail(x) : x \in Nonzero(self.tensor)}
    IN  IF ~nonzero
        THEN ReturnValue([min_point |-> [i \in Axes |-> 0],
                          max_point |-> [i \in Axes |-> baseshape[i] - 1]])
        ELSE IF self.tensor.shape[1] > 1 /\ Numel(self.tensor) > 0
        THEN RaiseValue("RuntimeError")
        ELSE IF found = {} THEN RaiseValue("ValueError")
        ELSE ReturnValue([min_point |-> [i \in Axes |-> SetMin({x[i] : x \in found})],
                          max_point |-> [i \in Axes |-> SetMax({x[i] : x \in found})]])

Bounds(self, nonzero, margin) ==
    LET c == BoundsCorners(self, nonzero)
        sp == GeoSpacing(self.geometry)
        m(i) == Rat(margin[1], sp[i])
    IN  IF c.err # "none" \/ margin = None
        THEN IF c.err # "none" THEN c
             ELSE ReturnValue([min_point |-> [i \in Axes |-> Rat(c.val.min_point[i], 1)],
                               max_point |-> [i \in Axes |-> Rat(c.val.max_point[i], 1)]])
        ELSE ReturnValue(
               [min_point |-> [i \in Axes |->
                    RatAdd(RatAdd(Rat(c.val.min_point[i] * sp[i], sp[i]), RatNeg(m(i))), m(i))],
                max_point |-> [i \in Axes |-> Rat(c.val.max_point[i], 1)]])

(***************************************************************************)
(* Volume.centroids(space): one point per channel, a rational per axis.    *)
(***************************************************************************)
\* the 1e-6 added to the denominator, as 1 / EpsilonInverse
EpsilonInverse == 1000000

\* the sum of the values of a function
RECURSIVE SumOver(_)
SumOver(f) ==
    IF DOMAIN f = {} THEN 0
    ELSE LET x == CHOOSE y \in DOMAIN f : TRUE
         IN  f[x] + SumOver([y \in DOMAIN f \ {x} |-> f[y]])

\* coord(a) for the means a of the clamped channel c along axis i: the sum
\* of a * index over the sum of a plus 1e-6, the means sharing the divisor
\* slab (the number of voxels that each mean is taken over)
CentroidCoord(T, c, i) ==
    LET S == Tail(T.shape)
        voxels == {x \in Idx(T.shape) : x[1] = c}
        clamped == [x \in voxels |-> IF T.data[x] = Blend THEN 1 ELSE Max2(T.data[x], 0)]
        weighted == [x \in voxels |-> clamped[x] * x[i + 1]]
        slab == ExactDiv(S[1] * S[2] * S[3], S[i])
    IN  Rat(SumOver(weighted) * EpsilonInverse, SumOver(clamped) * EpsilonInverse + slab)

VoxelCentroids(self) ==
    [c \in 0..(self.tensor.shape[1] - 1) |->
        [i \in Axes |-> CentroidCoord(self.tensor, c, i)]]

\* Volume has no attribute matrix: the world branch ends in AttributeError
Centroids(self, space) ==
    IF space = "world" THEN RaiseValue("AttributeError")
    ELSE ReturnValue(VoxelCentroids(self))

\* geometry.transform(p) for a voxel point p of rationals
GeoPointRat(g, p) ==
    [i \in Axes |->
        LET j == CHOOSE c \in Axes : g.A[i][c] # 0
        IN  Rat(g.A[i][j] * p[j][1] + g.t[i] * p[j][2], p[j][2])]

(***************************************************************************)
(* The state: a heap of tensor objects, the Volumes built so far (each     *)
(* names its tensor object and holds its geometry), and the last call:     *)
(* its operation, source Volume, arguments, the exception it raised and    *)
(* the Volume it returned (0 when it returned none).                       *)
(***************************************************************************)
VARIABLES tensors, vols, last, calls

vars == <<tensors, vols, last, calls>>

\* the Volume v as a value: its tensor and its geometry
Self(v) == [tensor |-> tensors[vols[v].tid], geometry |-> vols[v].geometry]

NoCall == [op |-> "init", src |-> 0, args |-> <<>>, err |-> "none", res |-> 0]

\* a call whose result takes the place of its source Volume
Finish_InPlace(op, src, args, r) ==
    /\ calls' = calls + 1
    /\ IF r.err # "none"
       THEN /\ UNCHANGED <<tensors, vols>>
            /\ last' = [op |-> op, src |-> src, args |-> args, err |-> r.err, res |-> 0]
       ELSE IF src = 0
       THEN /\ tensors' = Append(tensors, r.tensor)
            /\ vols' = Append(vols, [tid |-> Len(tensors) + 1, geometry |-> r.geometry])
            /\ last' = [op |-> op, src |-> src, args |-> args, err |-> "none",
                        res |-> Len(vols) + 1]
       ELSE /\ tensors' = [tensors EXCEPT ![vols[src].tid] = r.tensor]
            /\ vols' = [vols EXCEPT ![src].geometry = r.geometry]
            /\ last' = [op |-> op, src |-> src, args |-> args, err |-> "none",
                        res |-> src]

\* the effect of a call on Volume src that evaluates to the result r
Finish(op, src, args, r) ==
    /\ calls' = calls + 1
    /\ IF r.err # "none"
       THEN /\ UNCHANGED <<tensors, vols>>
            /\ last' = [op |-> op, src |-> src, args |-> args, err |-> r.err, res |-> 0]
       ELSE /\ tensors' = IF r.same THEN tensors ELSE Append(tensors, r.tensor)
            /\ vols' = Append(vols, [tid |-> IF r.same THEN vols[src].tid
                                             ELSE Len(tensors) + 1,
                                     geometry |-> r.geometry])
            /\ last' = [op |-> op, src |-> src, args |-> args, err |-> "none",
                        res |-> Len(vols) + 1]

\* the effect of a call on Volume src that evaluates to the plain value r
FinishValue(op, src, args, r) ==
    /\ calls' = calls + 1
    /\ UNCHANGED <<tensors, vols>>
    /\ last' = [op |-> op, src |-> src, args |-> args, err |-> r.err, res |-> 0,
                val |-> r.val]

(***************************************************************************)
(* Inputs.                                                                 *)
(***************************************************************************)
Dims == 1..MaxDim
Shapes3 == {<<w, h, d>> : w \in Dims, h \in Dims, d \in Dims}

\* the position of index x in row-major order
RECURSIVE Linear(_, _)
Linear(x, shape) ==
    IF x = <<>> THEN 0
    ELSE x[Len(x)] + shape[Len(shape)]
                       * Linear(SubSeq(x, 1, Len(x) - 1), SubSeq(shape, 1, Len(shape) - 1))

\* every entry differs from every other and from zero
IndexData(shape) == [x \in Idx(shape) |-> 1 + Linear(x, shape)]
\* all zero except the value v at index p
OneHot(shape, p, v) == [x \in Idx(shape) |-> IF x = p THEN v ELSE 0]

\* geometries of a grid: the default one, one with permuted, flipped and
\* anisotropic axes, and one whose spacings are a few ticks
Oblique(baseshape) ==
    Geometry(baseshape,
             <<  <<0, 0 - 2 * Unit, 0>>, <<Unit, 0, 0>>, <<0, 0, 3 * Unit>>  >>,
             <<5000, 0 - 20000, 7>>)
Fine(baseshape) == Geometry(baseshape, Diag(<<3, 4, 5>>), <<1, 0 - 1, 5>>)
Geometries(baseshape) ==
    {CenteredIdentity(baseshape), Oblique(baseshape), Fine(baseshape)}

Channels == {1, MaxChan}
DTypes == {"float32", "int32"}

\* the Volumes a behaviour starts from: every small grid, with distinct
\* nonzero voxel values, under each geometry
StartVolumes ==
    {[tensor |-> Tensor("float32", <<c>> \o bs, IndexData(<<c>> \o bs)),
      geometry |-> g] :
        c \in Channels, g \in UNION {Geometries(b) : b \in Shapes3}, bs \in Shapes3}

StartFrom(V) ==
    /\ V.geometry.baseshape = Tail(V.tensor.shape)
    /\ tensors = <<V.tensor>>
    /\ vols = <<[tid |-> 1, geometry |-> V.geometry]>>
    /\ last = NoCall
    /\ calls = 0

(***************************************************************************)
(* Calls of resample_like on the start Volume with targets derived from    *)
(* its own geometry: integer voxel shifts of any magnitude, and targets    *)
(* that differ from the source by a few ticks.                             *)
(***************************************************************************)
ShiftRange == (0 - (MaxDim + 1))..(MaxDim + 1)
Shifts == {<<dx, dy, dz>> : dx \in ShiftRange, dy \in ShiftRange, dz \in ShiftRange}
Modes == {"linear", "nearest"}
PaddingModes == {"zeros", "reflection", "border", "wrap"}

\* V.resample_like(V.geometry.shift(d, space='voxel'))
ResampleLikeShifted(d) ==
    /\ calls = 0
    /\ LET target == GeoShift(Self(1).geometry, d)
       IN  \E nan_oob \in NanChoices(Self(1)) :
             Finish("resample_like", 1,
                    [target |-> target, mode |-> "linear", padding_mode |-> "zeros"],
                    ResampleLike(Self(1), target, "linear", "zeros", nan_oob))

\* geometries whose translation and spacing on one axis are e and f ticks
\* away from those of g
Ticks == (0 - 2)..2
Nudges == {<<e, 0>> : e \in Ticks} \cup {<<0, f>> : f \in Ticks} \cup {<<1, 1>>}
Nudge(g, i, e, f) ==
    LET r == PivotRow(g.A, i)
    IN  [g EXCEPT !.t[i] = @ + e, !.A[r][i] = @ + f]

\* V.resample_like(target, mode, padding_mode) for a target within a few
\* ticks of V's geometry, on the same grid or on one a voxel longer
ResampleLikeNear(i, e, f, grow, mode, padding_mode) ==
    /\ calls = 0
    /\ LET g == Nudge(Self(1).geometry, i, e, f)
           target == [g EXCEPT !.baseshape[i] = @ + grow]
       IN  \E nan_oob \in NanChoices(Self(1)) :
             Finish("resample_like", 1,
                    [target |-> target, mode |-> mode, padding_mode |-> padding_mode],
                    ResampleLike(Self(1), target, mode, padding_mode, nan_oob))

InitResample == \E V \in StartVolumes : StartFrom(V)
NextResample ==
    \/ \E d \in Shifts : ResampleLikeShifted(d)
    \/ \E i \in {1, 3}, n \in Nudges, grow \in {0, 1},
          mode \in Modes, padding_mode \in PaddingModes :
            ResampleLikeNear(i, n[1], n[2], grow, mode, padding_mode)
SpecResample == InitResample /\ [][NextResample]_vars

(***************************************************************************)
(* Properties of resample_like.                                            *)
(***************************************************************************)
Src == Self(last.src)
ResTensor == tensors[vols[last.res].tid]
ResGeometry == vols[last.res].geometry
Returned == last.err = "none" /\ last.res # 0

\* the explicit crop of T by the voxel shift d, zero-filled where the
\* shifted voxel lies outside T
ShiftedCrop(T, d) ==
    Tensor(T.dtype, T.shape,
           [x \in Idx(T.shape) |->
               IF \A i \in Axes : x[i + 1] + d[i] >= 0 /\ x[i + 1] + d[i] < T.shape[i + 1]
               THEN T.data[<<x[1]>> \o [i \in Axes |-> x[i + 1] + d[i]]]
               ELSE 0])

IsShiftCall(d) ==
    /\ last.op = "resample_like"
    /\ last.args.target = GeoShift(Src.geometry, d)
    /\ last.args.padding_mode = "zeros"

\* C2 -- Fast-path equivalence: for every integer voxel shift d of any sign
\* and magnitude, V.resample_like(V.geometry.shift(d, space='voxel')) returns
\* a Volume whose voxel k is voxel k + d of V where that lies inside V and
\* the fill value 0 elsewhere.
C2_FastPathEquivalence ==
    \A d \in Shifts :
        IsShiftCall(d) => (Returned /\ ResTensor = ShiftedCrop(Src.tensor, d))

\* the shifts that leave the two grids overlapping or touching on every axis
WithinExtent(T, d) == \A i \in Axes : Abs(d[i]) <= T.shape[i + 1]

\* the equivalence holds for every shift no longer than the grid
ShiftWithinExtentEquivalence ==
    \A d \in Shifts :
        (IsShiftCall(d) /\ WithinExtent(Src.tensor, d))
            => (Returned /\ ResTensor = ShiftedCrop(Src.tensor, d))

\* C5 -- Identity fast path: when the target has the source's rotation/scale
\* block and translation within 1e-4 and the source's baseshape, resample_like
\* returns, for every mode and padding_mode, a Volume that holds the source's
\* own tensor (no crop, pad or interpolation: same values, shape and dtype)
\* and the target geometry.
C5_IdentityFastPath ==
    (/\ last.op = "resample_like"
     /\ \A i \in Axes : \A j \in Axes :
            Abs(Src.geometry.A[i][j] - last.args.target.A[i][j]) <= Atol
     /\ \A i \in Axes : Abs(Src.geometry.t[i] - last.args.target.t[i]) <= Atol
     /\ last.args.target.baseshape = Tail(Src.tensor.shape))
    => (/\ Returned
        /\ vols[last.res].tid = vols[last.src].tid
        /\ ResTensor = Src.tensor
        /\ ResGeometry = last.args.target)

\* an identity call whose target is not the source geometry itself, in
\* nearest mode with a padding mode torch does not know
C5_Witness ==
    /\ last.op = "resample_like"
    /\ Returned
    /\ vols[last.res].tid = vols[last.src].tid
    /\ last.args.target # Src.geometry
    /\ last.args.mode = "nearest"
    /\ last.args.padding_mode = "wrap"

SupportedPaddingModes == {"zeros", "reflection", "border"}

\* C12 -- An unsupported padding-mode name is rejected: resample_like called
\* with a padding_mode other than zeros, reflection and border raises an
\* error at that call and returns no Volume, whichever path the geometries
\* select.
C12_PaddingModeRejected ==
    (last.op = "resample_like" /\ last.args.padding_mode \notin SupportedPaddingModes)
        => (last.err # "none" /\ last.res = 0)

(***************************************************************************)
(* Calls of resample_like on the start Volume with voxel-aligned targets   *)
(* of any baseshape: the source geometry shifted by whole voxels, within   *)
(* the source grid, across its border and wholly outside it.               *)
(***************************************************************************)
AlignedShifts ==
    {<<x, 0, 0 - x>> : x \in ShiftRange} \cup {<<0, x, 0>> : x \in ShiftRange}
AlignedShapes(S) ==
    {S, <<1, 1, 1>>, <<1, MaxDim, MaxDim + 1>>, <<MaxDim + 1, MaxDim + 1, MaxDim + 1>>}

\* V.resample_like(AcquisitionGeometry(T, V.geometry.shift(d, space='voxel')))
ResampleLikeAligned(d, T) ==
    /\ calls = 0
    /\ LET target == [GeoShift(Self(1).geometry, d) EXCEPT !.baseshape = T]
       IN  \E nan_oob \in NanChoices(Self(1)) :
             Finish("resample_like", 1,
                    [target |-> target, mode |-> "linear", padding_mode |-> "zeros"],
                    ResampleLike(Self(1), target, "linear", "zeros", nan_oob))

InitAligned == \E V \in StartVolumes : StartFrom(V)
NextAligned ==
    \E d \in AlignedShifts, T \in AlignedShapes(Tail(Self(1).tensor.shape)) :
        ResampleLikeAligned(d, T)
SpecAligned == InitAligned /\ [][NextAligned]_vars

\* C20 -- The integer-shift path always produces the target shape: for
\* every source baseshape S, target baseshape T and integer voxel delta
\* (also beyond the source grid), the kept slice
\* [max(lower,0), min(upper,0)+S) has non-negative length on every axis,
\* that length plus pad_before = max(-lower,0) plus pad_after = max(upper,0)
\* equals T, with upper = lower + T - S, and resample_like returns a Volume
\* of shape (C, *T) without a shape-mismatch error.
C20_ShiftProducesTargetShape ==
    last.op = "resample_like" =>
        LET S == Tail(Src.tensor.shape)
            T == last.args.target.baseshape
            delta == VoxelDelta(Src.geometry, last.args.target)
            lower == [i \in Axes |-> RatRound(delta[i])]
            upper == [i \in Axes |-> lower[i] + T[i] - S[i]]
            kept == [i \in Axes |-> (Min2(upper[i], 0) + S[i]) - Max2(lower[i], 0)]
        IN  /\ \A i \in Axes :
                  /\ kept[i] >= 0
                  /\ kept[i] + Max2(0 - lower[i], 0) + Max2(upper[i], 0) = T[i]
            /\ Returned
            /\ ResTensor.shape = <<Src.tensor.shape[1]>> \o T

\* the target shape is produced whenever the two grids overlap or touch
AlignedOverlapProducesTargetShape ==
    last.op = "resample_like" =>
        LET S == Tail(Src.tensor.shape)
            T == last.args.target.baseshape
            delta == VoxelDelta(Src.geometry, last.args.target)
            lower == [i \in Axes |-> RatRound(delta[i])]
        IN  (\A i \in Axes : lower[i] <= S[i] /\ lower[i] + T[i] >= 0)
                => (Returned /\ ResTensor.shape = <<Src.tensor.shape[1]>> \o T)

(***************************************************************************)
(* Round trips: V.reshape(S).reshape(V.baseshape) and                      *)
(* V.pad(delta).pad(-delta) on the start Volume.                           *)
(***************************************************************************)
TargetDims == 1..(MaxDim + 1)
TargetShapes == {<<w, h, d>> : w \in TargetDims, h \in TargetDims, d \in TargetDims}

\* world deltas in ticks: quarter units up to a few voxels, and single ticks
DeltaSteps == (0 - 4 * (MaxDim + 1))..(4 * (MaxDim + 1))
Deltas ==
    LET scalars == {2500 * k : k \in DeltaSteps} \cup DeltaSteps
    IN  {<<x, x, x>> : x \in scalars} \cup {<<x, 0 - x, 0>> : x \in scalars}

ReshapeTo(S) ==
    /\ calls = 0
    /\ \E nan_oob \in NanChoices(Self(1)) :
         Finish("reshape", 1, [baseshape |-> S], Reshape(Self(1), S, nan_oob))

\* the reverse reshape, to the baseshape of the start Volume
ReshapeBack ==
    /\ calls = 1 /\ last.op = "reshape" /\ last.res # 0
    /\ LET S == Tail(Self(1).tensor.shape)
       IN  \E nan_oob \in NanChoices(Self(last.res)) :
             Finish("reshape", last.res, [baseshape |-> S],
                    Reshape(Self(last.res), S, nan_oob))

\* only grids of at most MaxDim + 2 voxels per axis are built
PadBy(delta) ==
    /\ calls = 0
    /\ \A i \in Axes : Self(1).tensor.shape[i + 1] + PadVoxels(Self(1), delta)[i] <= MaxDim + 2
    /\ \E nan_oob \in NanChoices(Self(1)) :
         Finish("pad", 1, [delta |-> delta], Pad(Self(1), delta, nan_oob))

\* the reverse pad, by the negated delta
PadBack ==
    /\ calls = 1 /\ last.op = "pad" /\ last.res # 0
    /\ LET delta == VNeg(last.args.delta)
       IN  \E nan_oob \in NanChoices(Self(last.res)) :
             Finish("pad", last.res, [delta |-> delta],
                    Pad(Self(last.res), delta, nan_oob))

InitRoundTrip == \E V \in StartVolumes : StartFrom(V)
NextRoundTrip ==
    \/ \E S \in TargetShapes : ReshapeTo(S)
    \/ ReshapeBack
    \/ \E delta \in Deltas : PadBy(delta)
    \/ PadBack
SpecRoundTrip == InitRoundTrip /\ [][NextRoundTrip]_vars

\* C3 -- Round-trip reshape: for every Volume V and target baseshape S,
\* V.reshape(S).reshape(V.baseshape) has a geometry equal to V.geometry.
C3_RoundTripReshape ==
    (calls = 2 /\ last.op = "reshape")
        => (Returned /\ ResGeometry = vols[1].geometry)

\* the round trip restores the geometry when every axis differs by an even
\* number of voxels
EvenRoundTripReshape ==
    (/\ calls = 2 /\ last.op = "reshape"
     /\ \A i \in Axes :
            (tensors[vols[2].tid].shape[i + 1] - tensors[vols[1].tid].shape[i + 1]) % 2 = 0)
        => (Returned /\ ResGeometry = vols[1].geometry)

\* C8 -- Pad/crop inverse: for every Volume V and world delta for which
\* V.pad(delta) has a positive size on every axis, V.pad(delta).pad(-delta)
\* has the baseshape of V, and no pad changes the spacing.
C8_PadInverse ==
    (/\ calls = 2 /\ last.op = "pad"
     /\ \A i \in Axes : tensors[vols[2].tid].shape[i + 1] > 0)
        => (/\ Returned
            /\ Tail(ResTensor.shape) = Tail(tensors[vols[1].tid].shape)
            /\ ResGeometry.baseshape = vols[1].geometry.baseshape
            /\ GeoSpacing(vols[2].geometry) = GeoSpacing(vols[1].geometry)
            /\ GeoSpacing(ResGeometry) = GeoSpacing(vols[1].geometry))

\* a pad by a delta that is a tie (half a voxel more than whole voxels) on
\* some axis and changes the baseshape, undone by the reverse pad
C8_Witness ==
    /\ calls = 2 /\ last.op = "pad" /\ Returned
    /\ Tail(tensors[vols[2].tid].shape) # Tail(tensors[vols[1].tid].shape)
    /\ \A i \in Axes : tensors[vols[2].tid].shape[i + 1] > 0
    /\ \E i \in Axes :
          LET sp == GeoSpacing(vols[1].geometry)[i]
          IN  (2 * last.args.delta[i]) % sp = 0 /\ last.args.delta[i] % sp # 0
    /\ Tail(ResTensor.shape) = Tail(tensors[vols[1].tid].shape)

(***************************************************************************)
(* Volume.__getitem__: a tensor or Volume mask indexes the tensor and      *)
(* returns a tensor, anything else is cropped.  indexing is                *)
(* [kind |-> "mask"] or [kind |-> "items", items |-> a slicing tuple].     *)
(***************************************************************************)
GetItem(self, indexing) ==
    IF indexing.kind = "mask" THEN [Raise("none") EXCEPT !.tensor = self.tensor]
    ELSE Crop(self, indexing.items, None)

\* a call that returns no Volume: an exception, or a plain tensor
FinishPlain(op, src, args, r) ==
    /\ calls' = calls + 1
    /\ UNCHANGED <<tensors, vols>>
    /\ last' = [op |-> op, src |-> src, args |-> args, err |-> r.err, res |-> 0]

(***************************************************************************)
(* Crops of the start Volume by slicing tuples of one to five items.       *)
(***************************************************************************)
CropItems ==
    {FullSlice, IntItem(0), EllipsisItem,
     Slice(Some(1), Some(MaxDim), None), Slice(None, None, Some(2))}

RECURSIVE Tuples(_, _)
Tuples(S, n) == IF n = 0 THEN {<<>>} ELSE {<<h>> \o r : h \in S, r \in Tuples(S, n - 1)}

CropSpecs ==
    UNION {Tuples(CropItems, n) : n \in 1..4} \cup {<<FullSlice, FullSlice, FullSlice, FullSlice, FullSlice>>}

\* V.crop(cropping)
CropBy(cropping) ==
    /\ calls = 0
    /\ Finish("crop", 1, [cropping |-> cropping, margin |-> None],
              Crop(Self(1), cropping, None))

\* V[cropping], and V[mask]
Index(indexing) ==
    /\ calls = 0
    /\ IF indexing.kind = "mask"
       THEN FinishPlain("getitem", 1, indexing, GetItem(Self(1), indexing))
       ELSE Finish("getitem", 1, indexing, GetItem(Self(1), indexing))

InitCrop == \E V \in StartVolumes : StartFrom(V)
NextCrop ==
    \/ \E cropping \in CropSpecs : CropBy(cropping)
    \/ \E cropping \in CropSpecs : Index([kind |-> "items", items |-> cropping])
    \/ Index([kind |-> "mask", items |-> <<>>])
SpecCrop == InitCrop /\ [][NextCrop]_vars

\* C6 -- Crop idempotence: cropping a Volume to its full extent with
\* crop((slice(None),)*3) returns a Volume whose data and geometry equal the
\* original's.
C6_CropIdempotence ==
    (last.op = "crop" /\ last.args.cropping = <<FullSlice, FullSlice, FullSlice>>
        /\ last.args.margin = None)
        => (Returned /\ ResTensor = Src.tensor /\ ResGeometry = Src.geometry)

\* a full-extent crop of a grid with more than one voxel on every axis under
\* a geometry that is not the default one
C6_Witness ==
    /\ last.op = "crop" /\ last.args.cropping = <<FullSlice, FullSlice, FullSlice>>
    /\ Returned
    /\ \A i \in Axes : Src.tensor.shape[i + 1] > 1
    /\ Src.geometry # CenteredIdentity(Tail(Src.tensor.shape))

\* the cropping tuple of the last crop or V[...] call
LastCropping == IF last.op = "crop" THEN last.args.cropping ELSE last.args.items

IsCropCall ==
    \/ last.op = "crop"
    \/ last.op = "getitem" /\ last.args.kind = "items"

\* the tuple, completed to channel + 3 spatial entries, holds an integer in a
\* spatial position
SpatialInt(cropping) ==
    /\ ExpandOk(cropping, 4)
    /\ \E a \in 2..4 : expand_slicing(cropping, 4)[a].kind = "int"

\* C9 -- Crop never removes a spatial axis: a slicing spec that, once expanded
\* to 4 entries, has an integer index in a spatial position makes crop (and
\* V[...]) raise an error and return no Volume; every Volume that crop returns
\* has a channel axis and exactly three spatial axes.
C9_CropKeepsSpatialAxes ==
    IsCropCall =>
        /\ SpatialInt(LastCropping) => (last.err # "none" /\ last.res = 0)
        /\ Returned => (Len(ResTensor.shape) = 4 /\ Len(ResGeometry.baseshape) = 3
                        /\ ResGeometry.baseshape = Tail(ResTensor.shape))

\* V[...] with an integer in the last spatial position only was refused
C9_Witness ==
    /\ last.op = "getitem" /\ last.args.kind = "items"
    /\ last.args.items = <<FullSlice, EllipsisItem, IntItem(0)>>
    /\ last.err = "ValueError" /\ last.res = 0 /\ Len(vols) = 1

(***************************************************************************)
(* crop_to_nonzero on Volumes with no, one, or only nonzero voxels.        *)
(***************************************************************************)
VoxelValues == {5, 0 - 1}

\* margins in world ticks: none, zero, and one that is a voxel or more of
\* the fine geometry
Margins == {None, Some(0), Some(4)}

\* V.crop_to_nonzero(margin)
CropNonzero(margin) ==
    /\ calls = 0
    /\ Finish("crop_to_nonzero", 1, [margin |-> margin], CropToNonzero(Self(1), margin))

InitNonzero ==
    \E c \in Channels, bs \in Shapes3 :
        \E g \in Geometries(bs), p \in Idx(<<c>> \o bs), v \in VoxelValues \cup {0} :
            \E data \in {OneHot(<<c>> \o bs, p, v), IndexData(<<c>> \o bs)} :
                StartFrom([tensor |-> Tensor("float32", <<c>> \o bs, data), geometry |-> g])
NextNonzero == \E margin \in Margins : CropNonzero(margin)
SpecNonzero == InitNonzero /\ [][NextNonzero]_vars

\* the source of the last call has exactly one nonzero entry
SingleNonzero == Cardinality(Nonzero(Src.tensor)) = 1
\* the index (c, i, j, k) of that entry
TheNonzero == CHOOSE x \in Nonzero(Src.tensor) : TRUE

\* C7 -- Nonzero bounding: for a Volume with exactly one nonzero voxel at
\* spatial index (i,j,k), crop_to_nonzero() returns a Volume of baseshape
\* (1,1,1) holding that voxel's value, whose geometry maps voxel (0,0,0) to
\* the world point that the original geometry maps voxel (i,j,k) to.
C7_NonzeroBounding ==
    (last.op = "crop_to_nonzero" /\ last.args.margin = None /\ SingleNonzero)
        => /\ Returned
           /\ ResGeometry.baseshape = <<1, 1, 1>>
           /\ Tail(ResTensor.shape) = <<1, 1, 1>>
           /\ \A x \in Idx(ResTensor.shape) : ResTensor.data[x] = Src.tensor.data[TheNonzero]
           /\ GeoPoint(ResGeometry, Zero3) = GeoPoint(Src.geometry, Tail(TheNonzero))

\* the single nonzero voxel lies off the origin on every spatial axis, in the
\* second channel, under a geometry that is not the default one
C7_Witness ==
    /\ last.op = "crop_to_nonzero" /\ last.args.margin = None /\ SingleNonzero
    /\ Returned
    /\ \A a \in 1..4 : TheNonzero[a] > 0
    /\ Src.geometry # CenteredIdentity(Tail(Src.tensor.shape))
    /\ ResTensor.shape = <<1, 1, 1, 1>>

\* C11 -- crop_to_nonzero on a Volume with no nonzero voxel in any channel
\* raises an error and returns no Volume, with or without a margin.
C11_CropToNonzeroEmpty ==
    (last.op = "crop_to_nonzero" /\ Nonzero(Src.tensor) = {})
        => (last.err # "none" /\ last.res = 0 /\ Len(vols) = 1 /\ Len(tensors) = 1)

\* the refused call was made with a margin on an all-zero Volume of several
\* channels and several voxels
C11_Witness ==
    /\ last.op = "crop_to_nonzero" /\ last.args.margin # None
    /\ Nonzero(Src.tensor) = {}
    /\ Src.tensor.shape[1] > 1 /\ \E i \in Axes : Src.tensor.shape[i + 1] > 1
    /\ last.err = "IndexError" /\ last.res = 0

\* crop_to_nonzero() without margin on a Volume with a nonzero voxel
TightCropCall ==
    last.op = "crop_to_nonzero" /\ last.args.margin = None /\ Nonzero(Src.tensor) # {}

\* the smallest index along axis a (1 the channel axis) of a nonzero entry
\* of the source, and the number of indices up to the largest
NonzeroLow(a) == SetMin({x[a] : x \in Nonzero(Src.tensor)})
NonzeroSpan(a) == SetMax({x[a] : x \in Nonzero(Src.tensor)}) - NonzeroLow(a) + 1

\* the result is the tight spatial box over the nonzero voxels
TightSpatialBox ==
    /\ Returned
    /\ Tail(ResTensor.shape) = [i \in Axes |-> NonzeroSpan(i + 1)]
    /\ ResGeometry.baseshape = Tail(ResTensor.shape)

\* C23 -- crop_to_nonzero keeps every channel: for a Volume with C channels
\* and at least one nonzero voxel, crop_to_nonzero() returns a Volume with
\* the same C channels in the same order, cropped only along the three
\* spatial axes to the tight box over the spatial indices of voxels nonzero
\* in any channel, also when the first or the last channel is all zero.
C23_CropToNonzeroKeepsChannels ==
    TightCropCall =>
        /\ TightSpatialBox
        /\ ResTensor.shape[1] = Src.tensor.shape[1]
        /\ \A x \in Idx(ResTensor.shape) :
             ResTensor.data[x] =
                 Src.tensor.data[<<x[1]>> \o [i \in Axes |-> x[i + 1] + NonzeroLow(i + 1)]]

\* the channel axis is cropped like a spatial one: the result holds the
\* channels from the first to the last that has a nonzero voxel
CropToNonzeroCropsChannels ==
    TightCropCall =>
        /\ TightSpatialBox
        /\ ResTensor.shape[1] = NonzeroSpan(1)
        /\ \A x \in Idx(ResTensor.shape) :
             ResTensor.data[x] = Src.tensor.data[[a \in 1..4 |-> x[a] + NonzeroLow(a)]]

(***************************************************************************)
(* Calls of transform on the start Volume, with world-space matrices and   *)
(* with volume transforms that name a target geometry.                     *)
(***************************************************************************)
\* world-space affines: a translation, a flip, an axis permutation, a scale
WorldMatrices ==
    {AffineMatrix(Diag(<<Unit, Unit, Unit>>), <<3 * Unit, 0, 0 - 7>>),
     AffineMatrix(Diag(<<0 - Unit, Unit, Unit>>), Zero3),
     AffineMatrix(<<  <<0, Unit, 0>>, <<0, 0, Unit>>, <<Unit, 0, 0>>  >>, <<0, 2, 0>>),
     AffineMatrix(Diag(<<2 * Unit, Unit, 2 * Unit>>), <<0 - 4, 0, 6>>)}

\* AffineVolumeTransform(matrix, space='world', source=self, target=target)
AffineVolumeTransform(matrix, target) ==
    [kind |-> "volume_transform", baseshape |-> <<>>, A |-> matrix.A, t |-> matrix.t,
     target |-> target]

\* the transform arguments of a call on the Volume self
Transforms(self) ==
    WorldMatrices
    \cup {AffineVolumeTransform(m, CenteredIdentity(<<MaxDim, 1, MaxDim>>)) :
             m \in WorldMatrices}

\* V.transform(transform, resample, negate, mode)
TransformBy(transform, resample, negate, mode, nan_oob) ==
    /\ calls = 0
    /\ Finish("transform", 1,
              [transform |-> transform, resample |-> resample, negate |-> negate,
               mode |-> mode],
              Transform(Self(1), transform, resample, negate, mode, nan_oob))

InitTransform == \E V \in StartVolumes : StartFrom(V)
NextTransform ==
    \E transform \in Transforms(Self(1)), resample \in BOOLEAN, negate \in BOOLEAN :
        \E mode \in IF resample THEN Modes ELSE {"linear"} :
            \E nan_oob \in IF resample THEN NanChoices(Self(1)) ELSE {TRUE} :
                TransformBy(transform, resample, negate, mode, nan_oob)
SpecTransform == InitTransform /\ [][NextTransform]_vars

\* the world point (ticks) that the world-space affine m sends w to
ApplyWorld(m, w) == [i \in Axes |-> (MatVec(m.A, w)[i] \div Unit) + m.t[i]]

\* the voxel points that determine an affine geometry
Frame == {Zero3, <<1, 0, 0>>, <<0, 1, 0>>, <<0, 0, 1>>}

\* C4 -- Geometry-only transform: V.transform(M, resample=False) returns a
\* Volume that holds the very same tensor object as V (hence the same shape,
\* dtype and values) and whose geometry is M composed with V.geometry: it
\* sends every voxel to the image under M of the world point V.geometry
\* sends it to; no tensor and no existing Volume is changed by the call.
C4_GeometryOnlyTransform ==
    [][(last'.op = "transform" /\ ~last'.args.resample /\ ~last'.args.negate)
        => /\ last'.err = "none" /\ last'.res = Len(vols) + 1
           /\ tensors' = tensors
           /\ SubSeq(vols', 1, Len(vols)) = vols
           /\ vols'[last'.res].tid = vols[last'.src].tid
           /\ vols'[last'.res].geometry.kind = "geometry"
           /\ vols'[last'.res].geometry.baseshape = vols[last'.src].geometry.baseshape
           /\ \A p \in Frame :
                GeoPoint(vols'[last'.res].geometry, p)
                    = ApplyWorld(last'.args.transform,
                                 GeoPoint(vols[last'.src].geometry, p))]_vars

\* a geometry-only transform by the axis permutation of a Volume with more
\* than one voxel, under a geometry that is not the default one
C4_Witness ==
    /\ last.op = "transform" /\ ~last.args.resample /\ ~last.args.negate
    /\ Returned
    /\ vols[last.res].tid = vols[last.src].tid
    /\ last.args.transform.A[1][2] = Unit
    /\ ResGeometry # Src.geometry
    /\ Src.geometry # CenteredIdentity(Tail(Src.tensor.shape))
    /\ \E i \in Axes : Src.tensor.shape[i + 1] > 1

\* C10 -- transform with negate=True and resample=False always raises an
\* error, whatever the transform argument; no Volume is produced and the
\* source Volume keeps its data and its geometry.
C10_NegateWithoutResample ==
    [][(last'.op = "transform" /\ last'.args.negate /\ ~last'.args.resample)
        => /\ last'.err = "ValueError" /\ last'.res = 0
           /\ tensors' = tensors
           /\ vols' = vols]_vars

\* the refused call named a volume transform with a target of its own
C10_Witness ==
    /\ last.op = "transform" /\ last.args.negate /\ ~last.args.resample
    /\ last.args.transform.kind = "volume_transform"
    /\ last.err = "ValueError" /\ last.res = 0
    /\ Len(vols) = 1 /\ Len(tensors) = 1

(***************************************************************************)
(* Calls of crop on the start Volume with a bounding box mesh: boxes       *)
(* inside the grid, across its border and wholly outside it.               *)
(***************************************************************************)
BoxRange == (0 - 2)..(MaxDim + 1)
BoxOffsets == {0, 2500}
BoxMargins == {None, Some(Unit), Some(0 - Unit)}

\* the world box spanned by the voxel points lo and hi of the grid of g,
\* moved by o ticks along every world axis
BoxMesh(g, lo, hi, o) ==
    Mesh({VAdd(GeoPoint(g, <<x, y, z>>), <<o, o, o>>) :
            x \in {lo[1], hi[1]}, y \in {lo[2], hi[2]}, z \in {lo[3], hi[3]}})

\* V.crop(mesh, margin)
CropByMesh(lo, hi, o, margin) ==
    /\ calls = 0
    /\ \A i \in Axes : lo[i] <= hi[i]
    /\ LET mesh == BoxMesh(Self(1).geometry, lo, hi, o)
       IN  Finish("crop", 1, [mesh |-> mesh, margin |-> margin],
                  CropMesh(Self(1), mesh, margin))

InitMesh == \E V \in StartVolumes : StartFrom(V)
NextMesh ==
    \E a \in BoxRange, b \in BoxRange, o \in BoxOffsets, margin \in BoxMargins :
        \/ CropByMesh(<<a, a, a>>, <<b, b, b>>, o, margin)
        \/ CropByMesh(<<a, 0, 0>>, <<b, 0, 0>>, o, margin)
SpecMesh == InitMesh /\ [][NextMesh]_vars

\* C15 -- A mesh crop is clamped to the volume: the min and max corner
\* voxels derived from the mesh and the margin both lie in [0, baseshape)
\* with min <= max on every axis, so the call returns a Volume whose
\* baseshape is at least 1 and at most the source baseshape on every axis,
\* also for meshes partly or wholly outside the volume and for any margin.
C15_MeshCropClamped ==
    (last.op = "crop" /\ calls = 1) =>
        LET c == MeshCorners(Src, last.args.mesh, last.args.margin)
            baseshape == Tail(Src.tensor.shape)
        IN  /\ \A i \in Axes : /\ 0 <= c.minc[i] /\ c.minc[i] < baseshape[i]
                               /\ 0 <= c.maxc[i] /\ c.maxc[i] < baseshape[i]
                               /\ c.minc[i] <= c.maxc[i]
            /\ Returned
            /\ \A i \in Axes : /\ ResGeometry.baseshape[i] >= 1
                               /\ ResGeometry.baseshape[i] <= baseshape[i]

\* a mesh crop returns a Volume whose grid is no larger than the source grid
MeshCropWithinSource ==
    (last.op = "crop" /\ calls = 1) =>
        /\ Returned
        /\ \A i \in Axes : /\ ResGeometry.baseshape[i] >= 0
                           /\ ResGeometry.baseshape[i] <= Src.tensor.shape[i + 1]

(***************************************************************************)
(* Nearest-neighbour calls on start Volumes of each dtype: resample_like   *)
(* through the grid, reshape, pad and a resampling transform.              *)
(***************************************************************************)
TypedOn(c, bs) ==
    {[tensor |-> Tensor(dtype, <<c>> \o bs, IndexData(<<c>> \o bs)), geometry |-> g] :
        dtype \in DTypes, g \in {CenteredIdentity(bs), Oblique(bs)}}
TypedVolumes == UNION {TypedOn(c, bs) : c \in Channels, bs \in Shapes3}

\* targets two ticks off on the translation, or one tick off on the spacing
GridNudges == {<<2, 0>>, <<0, 1>>}
TypedShapes == {<<1, 1, 1>>, <<MaxDim, 1, MaxDim + 1>>}
TypedDeltas == {<<Unit, Unit, Unit>>, <<0 - Unit, 0, 2 * Unit>>}
Translation == AffineMatrix(Diag(<<Unit, Unit, Unit>>), <<3 * Unit, 0, 0 - 7>>)

InitDtype == \E V \in TypedVolumes : StartFrom(V)
NextDtype ==
    \/ \E n \in GridNudges, grow \in {0, 1}, mode \in Modes :
          ResampleLikeNear(1, n[1], n[2], grow, mode, "zeros")
    \/ \E S \in TypedShapes : ReshapeTo(S)
    \/ \E delta \in TypedDeltas : PadBy(delta)
    \/ \E mode \in Modes, nan_oob \in NanChoices(Self(1)) :
          TransformBy(Translation, TRUE, FALSE, mode, nan_oob)
SpecDtype == InitDtype /\ [][NextDtype]_vars

\* the last call resampled with nearest-neighbour interpolation
NearestCall ==
    \/ last.op \in {"reshape", "pad"}
    \/ last.op = "resample_like" /\ last.args.mode = "nearest"
    \/ last.op = "transform" /\ last.args.resample /\ last.args.mode = "nearest"

\* C13 -- Nearest-neighbour resampling keeps the dtype: the Volume returned
\* by the grid path of resample_like with mode='nearest', by reshape, by pad
\* and by transform(resample=True, mode='nearest') has the dtype of the
\* source tensor, for every source dtype.
C13_NearestKeepsDtype ==
    (NearestCall /\ Returned) => ResTensor.dtype = Src.tensor.dtype

\* resample_like, reshape and pad keep the dtype in nearest mode
NearestKeepsDtypeOutsideTransform ==
    (NearestCall /\ Returned /\ last.op # "transform")
        => ResTensor.dtype = Src.tensor.dtype

\* a grid-path resample_like in nearest mode on an int32 Volume
GridNearestOnInt ==
    /\ last.op = "resample_like" /\ last.args.mode = "nearest" /\ Returned
    /\ ~IdentityMatch(Src, last.args.target) /\ ~IntegerShift(Src, last.args.target)
    /\ Src.tensor.dtype = "int32" /\ ResTensor.dtype = "int32"

(***************************************************************************)
(* The new length of one axis as resample computes it, in float32:         *)
(* (geometry.spacing * curshape / spacing).ceil().int().  A float32 is a   *)
(* record [m, e] of value m * 2^e with 2^23 <= m < 2^24; every product and *)
(* quotient is rounded to the nearest float32, ties to even.               *)
(***************************************************************************)
MaxLen == 4

RECURSIVE Pow2(_)
Pow2(k) == IF k = 0 THEN 1 ELSE 2 * Pow2(k - 1)

F32(m, e) == [m |-> m, e |-> e]

\* the float32 nearest to X * 2^e, for an integer X > 0
RECURSIVE F32Round(_, _)
F32Round(X, e) ==
    IF X < Pow2(23) THEN F32Round(2 * X, e - 1)
    ELSE IF X < Pow2(24) THEN F32(X, e)
    ELSE LET k == CHOOSE n \in 1..8 : X < Pow2(24 + n) /\ X >= Pow2(23 + n)
             m == RoundHalfEven(X, Pow2(k))
         IN  IF m = Pow2(24) THEN F32(Pow2(23), e + k + 1) ELSE F32(m, e + k)

\* spacing * curshape, curshape an integer-valued float32
F32MulInt(a, n) == F32Round(a.m * n, a.e)

\* <<floor(r * 2^n / d) + q * 2^n, remainder>> by long division, r < d
RECURSIVE DivBits(_, _, _, _)
DivBits(r, d, n, q) ==
    IF n = 0 THEN <<q, r>>
    ELSE DivBits((2 * r) % d, d, n - 1, 2 * q + ((2 * r) \div d))

\* a / b: 25 quotient bits and a sticky bit, then rounded
F32Div(a, b) ==
    LET qr == DivBits(a.m % b.m, b.m, 25, a.m \div b.m)
        sticky == IF qr[2] = 0 THEN 0 ELSE 1
    IN  F32Round(2 * qr[1] + sticky, a.e - b.e - 26)

\* x.ceil().int() for x > 0
F32Ceil(x) ==
    IF x.e >= 0 THEN x.m * Pow2(x.e)
    ELSE IF 0 - x.e > 30 THEN 1
    ELSE CeilDiv(x.m, Pow2(0 - x.e))

NewShape(cur, curshape, spacing) == F32Ceil(F32Div(F32MulInt(cur, curshape), spacing))

\* float32 spacings: 0.5, 1, 1.5, 2, 3 and the float32 nearest to 0.85,
\* 1.45, 1.7, 1.95, 2.9, 3.15 and 3.65
Spacings ==
    {F32(8388608, 0 - 24), F32(8388608, 0 - 23), F32(12582912, 0 - 23),
     F32(8388608, 0 - 22), F32(12582912, 0 - 22),
     F32(14260634, 0 - 24), F32(12163482, 0 - 23), F32(14260634, 0 - 23),
     F32(16357786, 0 - 23), F32(12163482, 0 - 22), F32(13212058, 0 - 22),
     F32(15309210, 0 - 22)}
Lengths == 1..MaxLen

\* the new length of an axis of n voxels of spacing s resampled to spacing t
ResampleAxis(t) ==
    /\ last.op = "init"
    /\ last' = [op |-> "resample", src |-> 0,
                args |-> [cur |-> last.args.cur, curshape |-> last.args.curshape,
                          spacing |-> t],
                err |-> "none", res |-> 0,
                val |-> NewShape(last.args.cur, last.args.curshape, t)]
    /\ calls' = calls + 1
    /\ UNCHANGED <<tensors, vols>>

InitSpacing ==
    /\ tensors = <<>> /\ vols = <<>> /\ calls = 0
    /\ \E s \in Spacings, n \in Lengths :
         last = [NoCall EXCEPT !.args = [cur |-> s, curshape |-> n]]
NextSpacing == \E t \in Spacings : ResampleAxis(t)
SpecSpacing == InitSpacing /\ [][NextSpacing]_vars

\* n * s and k * t on a common scale, for [m, e] records s and t
Scaled(k, x, y) == k * x.m * Pow2(x.e - Min2(x.e, y.e))

\* C14 -- resample(t) returns, on each axis of N voxels of spacing s, the
\* length ceil(N * s / t): the new grid is at least as long as the old one
\* (newshape * t >= N * s) and no voxel longer than needed, and resampling
\* to the current spacing (t = s) returns the same length.
C14_ResampleShape ==
    last.op = "resample" =>
        LET s == last.args.cur
            t == last.args.spacing
            n == last.args.curshape
        IN  /\ Scaled(last.val, t, s) >= Scaled(n, s, t)
            /\ Scaled(last.val - 1, t, s) < Scaled(n, s, t)
            /\ (t = s => last.val = n)

(***************************************************************************)
(* Calls of quantile on Volumes with distinct entries, with repeated       *)
(* entries and with no entry at all (a grid with an axis of length zero).  *)
(***************************************************************************)
QuantileDen == 8
Quantiles == {<<j, QuantileDen>> : j \in (0 - 1)..(QuantileDen + 1)}

EmptyVolumes ==
    {[tensor |-> Tensor("float32", <<c>> \o bs, [x \in Idx(<<c>> \o bs) |-> 0]),
      geometry |-> CenteredIdentity(bs)] :
        c \in Channels, bs \in {<<0, 1, 1>>, <<MaxDim, 0, MaxDim>>}}

MeasuredOn(c, bs) ==
    {[tensor |-> Tensor(dtype, <<c>> \o bs, data), geometry |-> CenteredIdentity(bs)] :
        dtype \in DTypes,
        data \in {IndexData(<<c>> \o bs),
                  OneHot(<<c>> \o bs, <<0, 0, 0, 0>>, 5),
                  OneHot(<<c>> \o bs, <<0, 0, 0, 0>>, 0 - 3)}}
MeasuredVolumes == UNION {MeasuredOn(c, bs) : c \in Channels, bs \in Shapes3}

\* V.quantile(q)
QuantileOf(q) ==
    /\ calls = 0
    /\ FinishValue("quantile", 1, [q |-> q], Quantile(Self(1), q))

InitQuantile == \E V \in MeasuredVolumes \cup EmptyVolumes : StartFrom(V)
NextQuantile == \E q \in Quantiles : QuantileOf(q)
SpecQuantile == InitQuantile /\ [][NextQuantile]_vars

\* the clauses of the quantile contract for the last call
QuantileContract ==
    LET q == last.args.q
        n == Numel(Src.tensor)
        values == {Src.tensor.data[x] : x \in Idx(Src.tensor.shape)}
    IN  /\ (q[1] < 0 \/ q[1] > q[2]) => last.err # "none"
        /\ q[1] = 0 => (last.err = "none" /\ last.val = SetMin(values))
        /\ q[1] = q[2] => (last.err = "none" /\ last.val = SetMax(values))
        /\ (0 < q[1] /\ q[1] < q[2]) =>
              /\ QuantileRank(n, q) <= n
              /\ last.err = "none"
              /\ last.val \in values
              /\ SetMin(values) <= last.val /\ last.val <= SetMax(values)

BoundsMargins == {None, Some(0), Some(Unit), Some(0 - 2500)}

BoundedVolumes ==
    StartVolumes
    \cup {[tensor |-> Tensor("float32", <<1>> \o bs, OneHot(<<1>> \o bs, <<0>> \o p, v)),
           geometry |-> Oblique(bs)] :
             bs \in Shapes3, p \in {<<0, 0, 0>>, <<MaxDim - 1, 0, MaxDim - 1>>}, v \in {0, 5}}

\* V.bounds(nonzero, margin)
BoundsOf(nonzero, margin) ==
    /\ calls = 0
    /\ FinishValue("bounds", 1, [nonzero |-> nonzero, margin |-> margin],
                   Bounds(Self(1), nonzero, margin))

InitBounds == \E V \in BoundedVolumes : StartFrom(V)
NextBounds == \E nonzero \in BOOLEAN, margin \in BoundsMargins : BoundsOf(nonzero, margin)
SpecBounds == InitBounds /\ [][NextBounds]_vars

\* C18 -- bounds margin: for any Volume and any margin m (world units),
\* bounds(margin=m) returns the box whose voxel-space min corner is lowered
\* by m / spacing and whose max corner is raised by m / spacing on every
\* axis relative to bounds() without margin, for nonzero False and True.
C18_BoundsMargin ==
    (last.op = "bounds" /\ last.args.margin # None /\ last.err = "none") =>
        LET plain == Bounds(Src, last.args.nonzero, None).val
            sp == GeoSpacing(Src.geometry)
        IN  \A i \in Axes :
              LET m == Rat(last.args.margin[1], sp[i])
              IN  /\ RatEq(last.val.min_point[i], RatAdd(plain.min_point[i], RatNeg(m)))
                  /\ RatEq(last.val.max_point[i], RatAdd(plain.max_point[i], m))

\* bounds returns the same box whatever the margin
BoundsIgnoreMargin ==
    (last.op = "bounds" /\ last.err = "none") =>
        LET plain == Bounds(Src, last.args.nonzero, None).val
        IN  \A i \in Axes :
              /\ RatEq(last.val.min_point[i], plain.min_point[i])
              /\ RatEq(last.val.max_point[i], plain.max_point[i])

\* the spatial indices of the voxels of the source that are nonzero in any
\* channel
NonzeroSpatial == {Tail(x) : x \in Nonzero(Src.tensor)}

\* bounds(nonzero=True) without margin answers with the tight box over the
\* nonzero voxels, or with the 'empty volume' error when there is none
NonzeroBoundsContract ==
    /\ last.err \in {"none", "ValueError"}
    /\ last.err = "ValueError" <=> NonzeroSpatial = {}
    /\ last.err = "none" =>
         \A i \in Axes :
           /\ RatEq(last.val.min_point[i], <<SetMin({x[i] : x \in NonzeroSpatial}), 1>>)
           /\ RatEq(last.val.max_point[i], <<SetMax({x[i] : x \in NonzeroSpatial}), 1>>)

NonzeroBoundsCall ==
    last.op = "bounds" /\ last.args.nonzero /\ last.args.margin = None

\* C22 -- bounds(nonzero=True) works for every channel count: for a Volume
\* with C >= 1 channels and at least one nonzero voxel it returns the box
\* whose voxel-space corners are the per-axis minimum and maximum spatial
\* index over all voxels nonzero in any channel; it raises the 'empty
\* volume' error exactly when no voxel is nonzero and no other error.
C22_NonzeroBoundsAnyChannels ==
    NonzeroBoundsCall => NonzeroBoundsContract

\* with one channel the contract holds; with several channels and at least
\* one element the call fails on the view of the tensor
NonzeroBoundsOneChannel ==
    NonzeroBoundsCall =>
        IF Src.tensor.shape[1] = 1 THEN NonzeroBoundsContract
        ELSE Numel(Src.tensor) > 0 => last.err = "RuntimeError"

(***************************************************************************)
(* Calls of centroids on the start Volume, in voxel and in world space.    *)
(***************************************************************************)
\* a geometry with permuted, flipped and anisotropic axes of a few ticks
Skew(baseshape) ==
    Geometry(baseshape, <<  <<0, 0 - 2, 0>>, <<1, 0, 0>>, <<0, 0, 3>>  >>, <<5, 0 - 2, 7>>)

WeighedOn(c, bs) ==
    {[tensor |-> Tensor("float32", <<c>> \o bs, data), geometry |-> g] :
        g \in {Fine(bs), Skew(bs)},
        data \in {[x \in Idx(<<c>> \o bs) |-> 1 + ((x[2] + x[4]) % 2)],
                  OneHot(<<c>> \o bs, <<0, 0, 0, bs[3] - 1>>, 5),
                  OneHot(<<c>> \o bs, <<0, bs[1] - 1, 0, 0>>, 0 - 3)}}
WeighedVolumes == UNION {WeighedOn(c, bs) : c \in Channels, bs \in Shapes3}

\* V.centroids(space)
CentroidsOf(space) ==
    /\ calls = 0
    /\ FinishValue("centroids", 1, [space |-> space], Centroids(Self(1), space))

InitCentroids == \E V \in WeighedVolumes : StartFrom(V)
NextCentroids == \E space \in {"voxel", "world"} : CentroidsOf(space)
SpecCentroids == InitCentroids /\ [][NextCentroids]_vars

\* C19 -- centroids in world space: for any Volume, centroids(space='world')
\* succeeds and returns, for each channel c, the voxel-space centroid of
\* channel c (as centroids(space='voxel') returns it) mapped through the
\* Volume's voxel-to-world geometry.
C19_WorldCentroids ==
    (last.op = "centroids" /\ last.args.space = "world") =>
        /\ last.err = "none"
        /\ last.val = [c \in 0..(Src.tensor.shape[1] - 1) |->
                          GeoPointRat(Src.geometry, VoxelCentroids(Src)[c])]

\* centroids in voxel space succeeds, each coordinate within the grid
VoxelCentroidsWithinGrid ==
    (last.op = "centroids" /\ last.args.space = "voxel") =>
        /\ last.err = "none"
        /\ \A c \in DOMAIN last.val : \A i \in Axes :
              /\ last.val[c][i][1] >= 0
              /\ last.val[c][i][1] <= (Src.tensor.shape[i + 1] - 1) * last.val[c][i][2]

(***************************************************************************)
(* Sequences of calls: constructions, geometry assignments, elementwise    *)
(* and in-place operators, reductions, like-constructors, spatial          *)
(* operations and stack, each applied to the Volume made last.             *)
(***************************************************************************)
MaxCalls == 3      \* longest sequence of calls

Cur == Len(vols)
CanCall == calls < MaxCalls /\ Cur >= 1

\* tensors of rank 2 to 5 handed to the constructor
NewTensors ==
    {Tensor("float32", shape, IndexData(shape)) :
        shape \in {<<1, MaxDim>>, <<MaxDim, 1, MaxDim>>,
                   <<MaxChan, MaxDim, 1, MaxDim>>, <<1, 1, 1, 1, 1>>}}

\* geometry arguments for a grid of the given baseshape: none, a plain
\* matrix, a geometry of that baseshape, a geometry of another baseshape
GeometryArgs(baseshape) ==
    {NoGeometry,
     AffineMatrix(Oblique(baseshape).A, Oblique(baseshape).t),
     Fine(baseshape),
     Fine([i \in Axes |-> baseshape[i] + 1])}

\* Volume(tensor, geometry)
Construct(tensor, geometry) ==
    /\ calls < MaxCalls /\ Cur = 0
    /\ Finish("construct", 0, [tensor |-> tensor, geometry |-> geometry],
              [VolumeInit(FALSE, tensor, geometry) EXCEPT !.same = FALSE])

\* V.geometry = geometry
SetGeometry(geometry) ==
    /\ CanCall
    /\ LET set == GeometrySetter(Tail(Self(Cur).tensor.shape), geometry)
       IN  /\ calls' = calls + 1
           /\ tensors' = tensors
           /\ vols' = IF set.err = "none"
                      THEN [vols EXCEPT ![Cur].geometry = set.geometry] ELSE vols
           /\ last' = [op |-> "set_geometry", src |-> Cur,
                       args |-> [geometry |-> geometry], err |-> set.err, res |-> 0]

CropOp(cropping) ==
    CanCall /\ Finish("crop", Cur, [cropping |-> cropping, margin |-> None],
                      Crop(Self(Cur), cropping, None))

CropToNonzeroOp ==
    CanCall /\ Finish("crop_to_nonzero", Cur, [margin |-> None],
                      CropToNonzero(Self(Cur), None))

\* targets of resample_like: a voxel shift within the grid, one beyond it,
\* and a grid of another orientation and size
Targets(self) ==
    {GeoShift(self.geometry, <<1, 0, 0 - 1>>),
     GeoShift(self.geometry, <<MaxDim + 1, 0, 0>>),
     Oblique(<<1, MaxDim, 1>>)}

ResampleLikeOp(target, nan_oob) ==
    CanCall /\ Finish("resample_like", Cur,
                      [target |-> target, mode |-> "linear", padding_mode |-> "zeros"],
                      ResampleLike(Self(Cur), target, "linear", "zeros", nan_oob))

\* resample to a spacing; an empty grid is not resampled
ResampleOp(spacing, nan_oob) ==
    /\ CanCall
    /\ \A i \in Axes : Self(Cur).tensor.shape[i + 1] > 0
    /\ Finish("resample", Cur, [spacing |-> spacing],
              Resample(Self(Cur), spacing, "linear", "zeros", nan_oob))

ReshapeOp(baseshape, nan_oob) ==
    CanCall /\ Finish("reshape", Cur, [baseshape |-> baseshape],
                      Reshape(Self(Cur), baseshape, nan_oob))

PadOp(delta, nan_oob) ==
    CanCall /\ Finish("pad", Cur, [delta |-> delta], Pad(Self(Cur), delta, nan_oob))

TransformOp(resample, negate, nan_oob) ==
    LET transform ==
            AffineMatrix(<<  <<0, Unit, 0>>, <<0, 0, Unit>>, <<Unit, 0, 0>>  >>, <<0, 2, 0>>)
    IN  CanCall /\ Finish("transform", Cur,
                          [transform |-> transform, resample |-> resample,
                           negate |-> negate, mode |-> "linear"],
                          Transform(Self(Cur), transform, resample, negate, "linear", nan_oob))

\* tensor operands: a scalar-like one, and one that broadcasts the grid up
Operands ==
    {Tensor("float32", <<1, 1, 1, 1>>, [x \in Idx(<<1, 1, 1, 1>>) |-> 1]),
     Tensor("float32", <<1, MaxDim + 1, 1, 1>>, [x \in Idx(<<1, MaxDim + 1, 1, 1>>) |-> 1])}

AddOp(other) ==
    CanCall /\ Finish("add", Cur, [other |-> other], Add(Self(Cur), other))

\* V += other: V's tensor object is written in place; no Volume is made
IAddOp(other) ==
    /\ CanCall
    /\ calls' = calls + 1
    /\ vols' = vols
    /\ IF IAddOk(Self(Cur), other)
       THEN /\ tensors' = [tensors EXCEPT ![vols[Cur].tid] = TensorAdd(@, other)]
            /\ last' = [op |-> "iadd", src |-> Cur, args |-> [other |-> other],
                        err |-> "none", res |-> 0]
       ELSE /\ tensors' = tensors
            /\ last' = [op |-> "iadd", src |-> Cur, args |-> [other |-> other],
                        err |-> "RuntimeError", res |-> 0]

MaxOp ==
    CanCall /\ Finish("max", Cur, <<>>, MaxAlong0(Self(Cur)))

ZerosLikeOp(channels) ==
    CanCall /\ Finish("zeros_like", Cur, [channels |-> channels],
                      ZerosLike(Self(Cur), channels, None))

\* stack(V, first)
StackOp ==
    CanCall /\ Finish("stack", Cur, [other |-> 1], Stack(Self(Cur), Self(1)))

\* V -= other, V *= other, V /= other
InPlaceOp(kind, other) ==
    /\ CanCall
    /\ calls' = calls + 1
    /\ vols' = vols
    /\ IF InPlaceOk(kind, Self(Cur), other)
       THEN /\ tensors' = [tensors EXCEPT ![vols[Cur].tid] = InPlace(kind, @, other)]
            /\ last' = [op |-> kind, src |-> Cur, args |-> [other |-> other],
                        err |-> "none", res |-> 0]
       ELSE /\ tensors' = tensors
            /\ last' = [op |-> kind, src |-> Cur, args |-> [other |-> other],
                        err |-> "RuntimeError", res |-> 0]

\* V[indexing] = value
SetItemOp(indexing, value) ==
    /\ CanCall
    /\ calls' = calls + 1
    /\ vols' = vols
    /\ IF SetItemOk(Self(Cur).tensor, indexing)
       THEN /\ tensors' = [tensors EXCEPT ![vols[Cur].tid] = SetItem(@, indexing, value)]
            /\ last' = [op |-> "setitem", src |-> Cur,
                        args |-> [indexing |-> indexing, value |-> value],
                        err |-> "none", res |-> 0]
       ELSE /\ tensors' = tensors
            /\ last' = [op |-> "setitem", src |-> Cur,
                        args |-> [indexing |-> indexing, value |-> value],
                        err |-> "IndexError", res |-> 0]

\* V.clamp(min, max, inplace=True)
ClampInplaceOp(min, max) ==
    /\ CanCall
    /\ calls' = calls + 1
    /\ vols' = vols
    /\ tensors' = [tensors EXCEPT ![vols[Cur].tid] = ClampInplace(@, min, max)]
    /\ last' = [op |-> "clamp_", src |-> Cur, args |-> [min |-> min, max |-> max],
                err |-> "none", res |-> 0]

\* V.smooth(sigma); an empty grid is not smoothed
SmoothOp(sigma) ==
    /\ CanCall
    /\ \A i \in Axes : Self(Cur).tensor.shape[i + 1] > 0
    /\ Finish("smooth", Cur, [sigma |-> sigma], Smooth(Self(Cur), sigma))

Init ==
    /\ tensors = <<>>
    /\ vols = <<>>
    /\ last = NoCall
    /\ calls = 0

Next ==
    \/ \E tensor \in NewTensors :
          \E geometry \in IF Len(tensor.shape) \in {3, 4}
                          THEN GeometryArgs(Last3(tensor.shape)) ELSE {NoGeometry} :
              Construct(tensor, geometry)
    \/ Cur >= 1 /\ \E geometry \in GeometryArgs(Tail(Self(Cur).tensor.shape)) \ {NoGeometry} :
          SetGeometry(geometry)
    \/ \E cropping \in {<<FullSlice, Slice(Some(1), Some(MaxDim), None)>>,
                        <<IntItem(0)>>,
                        <<EllipsisItem, Slice(None, None, Some(2))>>} : CropOp(cropping)
    \/ CropToNonzeroOp
    \/ Cur >= 1 /\ \E target \in Targets(Self(Cur)), nan_oob \in NanChoices(Self(Cur)) :
          ResampleLikeOp(target, nan_oob)
    \/ Cur >= 1 /\ \E spacing \in {<<2 * Unit>>, <<Unit, Unit>>},
                      nan_oob \in NanChoices(Self(Cur)) : ResampleOp(spacing, nan_oob)
    \/ Cur >= 1 /\ \E baseshape \in {<<1, 1, 1>>, <<MaxDim + 1, MaxDim, 1>>},
                      nan_oob \in NanChoices(Self(Cur)) : ReshapeOp(baseshape, nan_oob)
    \/ Cur >= 1 /\ \E delta \in {<<Unit, 0, 0 - Unit>>, <<0 - 3 * Unit, 0, 0>>},
                      nan_oob \in NanChoices(Self(Cur)) : PadOp(delta, nan_oob)
    \/ Cur >= 1 /\ \E resample \in BOOLEAN, negate \in BOOLEAN,
                      nan_oob \in NanChoices(Self(Cur)) :
          TransformOp(resample, negate, nan_oob)
    \/ \E other \in Operands : AddOp(other)
    \/ \E other \in Operands : IAddOp(other)
    \/ MaxOp
    \/ \E channels \in {None, Some(MaxChan + 1)} : ZerosLikeOp(channels)
    \/ StackOp

Spec == Init /\ [][Next]_vars

(***************************************************************************)
(* Short sequences of spatial operations, in-place operators and geometry  *)
(* assignments, each applied to the Volume made last.                      *)
(***************************************************************************)
FrameCalls == 2

FrameVolumes ==
    {[tensor |-> Tensor(dtype, <<c>> \o bs, IndexData(<<c>> \o bs)),
      geometry |-> Oblique(bs)] :
        dtype \in DTypes, c \in Channels, bs \in {<<MaxDim, 1, MaxDim>>}}

InitFrame == \E V \in FrameVolumes : StartFrom(V)
FrameCall == calls < FrameCalls /\ Cur >= 1
FrameTargets(self) ==
    {self.geometry, GeoShift(self.geometry, <<MaxDim + 1, 0, 0>>), Oblique(<<1, MaxDim, 1>>)}
NextFrame ==
    \/ FrameCall /\ SetGeometry(Fine(Tail(Self(Cur).tensor.shape)))
    \/ FrameCall /\ CropOp(<<FullSlice, Slice(Some(1), Some(MaxDim), None)>>)
    \/ FrameCall /\ CropOp(<<IntItem(0), IntItem(0)>>)
    \/ FrameCall /\ CropToNonzeroOp
    \/ FrameCall /\ \E target \in FrameTargets(Self(Cur)), nan_oob \in NanChoices(Self(Cur)) :
                       ResampleLikeOp(target, nan_oob)
    \/ FrameCall /\ \E spacing \in {<<2 * Unit>>, <<Unit, Unit>>},
                       nan_oob \in NanChoices(Self(Cur)) : ResampleOp(spacing, nan_oob)
    \/ FrameCall /\ \E nan_oob \in NanChoices(Self(Cur)) :
                       ReshapeOp(<<MaxDim + 1, MaxDim, 1>>, nan_oob)
    \/ FrameCall /\ \E nan_oob \in NanChoices(Self(Cur)) :
                       PadOp(<<Unit, 0, 0 - Unit>>, nan_oob)
    \/ FrameCall /\ \E resample \in BOOLEAN, negate \in BOOLEAN,
                       nan_oob \in NanChoices(Self(Cur)) :
                       TransformOp(resample, negate, nan_oob)
    \/ FrameCall /\ \E sigma \in {<<0>>, <<Unit>>, <<Unit, Unit>>} : SmoothOp(sigma)
    \/ FrameCall /\ \E other \in Operands : IAddOp(other)
    \/ FrameCall /\ \E kind \in {"isub", "imul", "itruediv"}, other \in Operands :
                       InPlaceOp(kind, other)
    \/ FrameCall /\ \E indexing \in {<<EllipsisItem, IntItem(0)>>, <<IntItem(MaxChan)>>} :
                       SetItemOp(indexing, 7)
    \/ FrameCall /\ ClampInplaceOp(2, 3)
SpecFrame == InitFrame /\ [][NextFrame]_vars

SpatialOps ==
    {"crop", "crop_to_nonzero", "resample_like", "resample", "reshape", "pad",
     "transform", "smooth"}
InPlaceOps == {"iadd", "isub", "imul", "itruediv", "setitem", "clamp_"}

\* every Volume and every tensor object that existed before the step is
\* as it was
SourcesKept ==
    /\ Len(vols') >= Len(vols) /\ Len(tensors') >= Len(tensors)
    /\ \A v \in 1..Len(vols) : vols'[v] = vols[v]
    /\ \A t \in 1..Len(tensors) : tensors'[t] = tensors[t]

\* no Volume that existed before the step has another shape or geometry
ShapesKept ==
    /\ Len(vols') >= Len(vols) /\ Len(tensors') >= Len(tensors)
    /\ \A v \in 1..Len(vols) :
          /\ vols'[v].tid = vols[v].tid
          /\ vols'[v].geometry = vols[v].geometry
          /\ tensors'[vols[v].tid].shape = tensors[vols[v].tid].shape

\* C17 -- Spatial operations do not mutate their source: crop,
\* crop_to_nonzero, resample_like, resample, reshape, pad, transform and
\* smooth return a Volume and leave the tensor shape, the tensor values and
\* the geometry of the source (and of every other Volume) as they were, also
\* when the call fails; the in-place operators (+=, -=, *=, /=, item
\* assignment, clamp(inplace=True)) never change a shape or a geometry, which
\* change only through a geometry assignment.
C17_SourceNotMutated ==
    [][/\ last'.op \in SpatialOps =>
             /\ SourcesKept
             /\ last'.err = "none" => (Len(vols') = Len(vols) + 1 /\ last'.res = Len(vols'))
             /\ last'.err # "none" => (vols' = vols /\ tensors' = tensors)
       /\ last'.op \in InPlaceOps => ShapesKept
       /\ ~ShapesKept => last'.op = "set_geometry"]_vars

\* a spatial operation failed on a Volume that an earlier call had made
C17_Witness ==
    /\ calls = 2 /\ Len(vols) = 2
    /\ last.op = "smooth" /\ last.src = 2 /\ last.err # "none"

\* an in-place operator wrote into a tensor that two Volumes share
SharedTensorWritten ==
    /\ calls = 2 /\ Len(vols) = 2 /\ vols[1].tid = vols[2].tid
    /\ last.op = "isub" /\ last.err = "none"
    /\ tensors[1].data # IndexData(tensors[1].shape)

\* the Volume v holds a 4-D tensor and a geometry anchored to its baseshape
WellFormed(v) ==
    /\ vols[v].tid \in 1..Len(tensors)
    /\ Len(Self(v).tensor.shape) = 4
    /\ DOMAIN Self(v).tensor.data = Idx(Self(v).tensor.shape)
    /\ Self(v).geometry.kind = "geometry"
    /\ Self(v).geometry.baseshape = Tail(Self(v).tensor.shape)

\* C1 -- Well-formed Volume invariant: after any sequence of constructions,
\* geometry assignments, operators, reductions, like-constructors and
\* spatial operations, every Volume has a 4-D tensor (C,W,H,D) and a geometry
\* whose baseshape is (W,H,D); a construction with a tensor that is neither
\* 3-D nor 4-D, or a construction or assignment with a geometry of another
\* baseshape, raises an error and makes no Volume; a 3-D tensor is promoted
\* to one channel.
C1_WellFormedVolume ==
    /\ \A v \in 1..Len(vols) : WellFormed(v)
    /\ last.op = "construct" =>
          LET rank == Len(last.args.tensor.shape)
          IN  /\ rank \notin {3, 4} => (last.err = "ValueError" /\ last.res = 0)
              /\ (rank \in {3, 4} /\ last.args.geometry.kind = "geometry"
                    /\ last.args.geometry.baseshape # Last3(last.args.tensor.shape))
                   => (last.err = "ValueError" /\ last.res = 0)
              /\ last.res = 0 => Len(vols) = 0
              /\ (rank = 3 /\ Returned)
                   => ResTensor.shape = <<1>> \o last.args.tensor.shape
    /\ (last.op = "set_geometry" /\ last.args.geometry.kind = "geometry"
          /\ last.args.geometry.baseshape # Tail(Src.tensor.shape))
         => last.err = "ValueError"

\* after a construction, a spatial operation has made a second Volume on a
\* grid of another size, and an assignment of a geometry of another
\* baseshape to it was refused
C1_Witness ==
    /\ Len(vols) = 2
    /\ Tail(Self(2).tensor.shape) # Tail(Self(1).tensor.shape)
    /\ last.op = "set_geometry" /\ last.src = 2 /\ last.err = "ValueError"
    /\ last.args.geometry.baseshape # Tail(Self(2).tensor.shape)

(***************************************************************************)
(* Sampling grids of the start Volume: the normalised grid that            *)
(* resample_like builds for a target of the same matrix and any baseshape, *)
(* so that target voxel k lies at source voxel k.                          *)
(***************************************************************************)
\* volume_grid(target.baseshape, self.geometry.inverse() @ target,
\* normalize=self.baseshape): one flipped, normalised point per target voxel
VolumeGrid(source, target) ==
    [k \in Idx(target.baseshape) |-> volume_grid(source, target, source.baseshape, k)]

GridFor(baseshape) ==
    /\ calls = 0
    /\ FinishValue("volume_grid", 1, [baseshape |-> baseshape],
                   ReturnValue(VolumeGrid(Self(1).geometry,
                                          [Self(1).geometry EXCEPT !.baseshape = baseshape])))

InitGrid == \E V \in StartVolumes : StartFrom(V)
NextGrid == \E baseshape \in Shapes3 : GridFor(baseshape)
SpecGrid == InitGrid /\ [][NextGrid]_vars

\* component i of grid point k is the normalised coordinate of axis 4 - i;
\* NormalisedAt tells that axis i of voxel k, a coordinate within
\* 0..dim-1, is normalised to c / (dim - 1) * 2 - 1 within [-1, 1]
NormalisedAt(k, i) ==
    LET dim == Src.geometry.baseshape[i]
        g == last.val[k][4 - i]
    IN  /\ ~g.nan
        /\ 0 - g.q[2] <= g.q[1] /\ g.q[1] <= g.q[2]
        /\ g.q[1] * (dim - 1) = (2 * k[i] - (dim - 1)) * g.q[2]
        /\ k[i] = 0 => g.q[1] = 0 - g.q[2]
        /\ k[i] = dim - 1 => g.q[1] = g.q[2]

\* C21 -- grid normalisation: for every source baseshape (axes of size 1
\* included) and every coordinate c with 0 <= c <= dim-1, the normalised
\* coordinate c/(dim-1)*2-1 is defined and lies in [-1,1], 0 mapped to -1
\* and dim-1 to 1, the components of a grid point are in reversed axis
\* order, and the grid of target baseshape T has shape (*T, 3).
C21_GridNormalised ==
    last.op = "volume_grid" =>
        /\ DOMAIN last.val = Idx(last.args.baseshape)
        /\ \A k \in DOMAIN last.val :
             /\ Len(last.val[k]) = 3
             /\ \A i \in Axes :
                  k[i] <= Src.geometry.baseshape[i] - 1 => NormalisedAt(k, i)

\* the same on the axes of size 2 and more; on an axis of size 1 the
\* division by dim - 1 = 0 leaves no number
GridNormalisedOnWideAxes ==
    last.op = "volume_grid" =>
        /\ DOMAIN last.val = Idx(last.args.baseshape)
        /\ \A k \in DOMAIN last.val :
             /\ Len(last.val[k]) = 3
             /\ \A i \in Axes :
                  LET dim == Src.geometry.baseshape[i]
                  IN  /\ (dim >= 2 /\ k[i] <= dim - 1) => NormalisedAt(k, i)
                      /\ dim = 1 => last.val[k][4 - i].nan
====
